---- MODULE Spec2Model ----
(***************************************************************************)
(* Certificate verification backend: the verification matching engine      *)
(* (backend/app/services/verification_service.py) and its endpoints        *)
(* (backend/app/api/v1/verify.py) as a state machine over the database     *)
(* tables the code reads and writes.                                       *)
(*                                                                         *)
(* Strings are tuples of one-character strings.  None and the empty string *)
(* are both the empty tuple: every place the code reads an optional string *)
(* it tests its truthiness, which does not tell them apart.                *)
(*                                                                         *)
(* Python floats are IEEE-754 binary64.  They are modelled bit-exactly for *)
(* the values the scorer can produce: a float is a fixed-point number      *)
(* holding at most 53 significant bits, and every arithmetic step rounds   *)
(* to nearest, ties to even, as the hardware does.  (0.8 + 1.0 + 1.0) / 3.5*)
(* is 0.7999999999999999 here as in Python.                                *)
(***************************************************************************)
EXTENDS Integers, Sequences, FiniteSets, TLC

(***************************************************************************)
(* binary64 arithmetic on the non-negative values the scorer produces      *)
(* (0, and 2^-7 <= x < 2^10).  A float is its exact value in units of      *)
(* 2^-FracBits, written in NumLimbs limbs of LimbBits bits, least          *)
(* significant limb first; the last limb is the integer part.              *)
(***************************************************************************)
LimbBits == 10
NumLimbs == 7
FracBits == 60
Mantissa == 53

RECURSIVE Pow2(_)
Pow2(n) == IF n = 0 THEN 1 ELSE 2 * Pow2(n - 1)
LimbBase == Pow2(LimbBits)

IsFloat(a) == Len(a) = NumLimbs

FZero == <<0, 0, 0, 0, 0, 0, 0>>
\* The natural number n (n < LimbBase).
FromNat(n) == <<0, 0, 0, 0, 0, 0, n>>
IntPart(a) == a[NumLimbs]

\* Exact sum (the sum fits the limbs).
RECURSIVE AddFrom(_, _, _, _)
AddFrom(a, b, k, carry) ==
    IF k > NumLimbs THEN <<>>
    ELSE LET s == a[k] + b[k] + carry
         IN  <<s % LimbBase>> \o AddFrom(a, b, k + 1, s \div LimbBase)
BigAdd(a, b) == AddFrom(a, b, 1, 0)

\* Exact product with a small natural (the product fits the limbs).
RECURSIVE MulFrom(_, _, _, _)
MulFrom(a, m, k, carry) ==
    IF k > NumLimbs THEN <<>>
    ELSE LET s == a[k] * m + carry
         IN  <<s % LimbBase>> \o MulFrom(a, m, k + 1, s \div LimbBase)
BigMul(a, m) == MulFrom(a, m, 1, 0)

\* Long division by a small positive natural, from the top limb down:
\* <<quotient truncated to the limbs, remainder>>.
RECURSIVE DivFrom(_, _, _, _)
DivFrom(a, d, k, r) ==
    IF k = 0 THEN <<<<>>, r>>
    ELSE LET r2 == LimbBase * r + a[k]
             lowerPart == DivFrom(a, d, k - 1, r2 % d)
         IN  <<Append(lowerPart[1], r2 \div d), lowerPart[2]>>
BigDiv(a, d) == DivFrom(a, d, NumLimbs, 0)

\* Bits are numbered from 1 (the least significant).
RECURSIVE BitLen(_)
BitLen(n) == IF n = 0 THEN 0 ELSE 1 + BitLen(n \div 2)
LimbOf(i) == (i - 1) \div LimbBits + 1
OffsetOf(i) == (i - 1) % LimbBits
Bit(a, i) == (a[LimbOf(i)] \div Pow2(OffsetOf(i))) % 2
\* Some bit below bit i is set.
LowNonZero(a, i) == \/ \E k \in 1..(LimbOf(i) - 1) : a[k] # 0
                    \/ a[LimbOf(i)] % Pow2(OffsetOf(i)) # 0
\* Index of the most significant set bit, 0 for zero.
Msb(a) == IF \A k \in 1..NumLimbs : a[k] = 0 THEN 0
          ELSE LET k == CHOOSE k \in 1..NumLimbs :
                            a[k] # 0 /\ \A j \in (k + 1)..NumLimbs : a[j] = 0
               IN  LimbBits * (k - 1) + BitLen(a[k])

\* Round to 53 significant bits, to nearest, ties to even.  sticky says the
\* exact value lies strictly above a, by less than one unit of a's last place.
Round53(a, sticky) ==
    LET p == Msb(a)
        keep == p - Mantissa + 1
    IN  IF p = 0 \/ keep <= 1 THEN a
        ELSE LET up == /\ Bit(a, keep - 1) = 1
                       /\ \/ sticky
                          \/ LowNonZero(a, keep - 1)
                          \/ Bit(a, keep) = 1
                 trunc == [k \in 1..NumLimbs |->
                             IF k < LimbOf(keep) THEN 0
                             ELSE IF k = LimbOf(keep)
                                  THEN a[k] - (a[k] % Pow2(OffsetOf(keep)))
                                  ELSE a[k]]
                 unit == [k \in 1..NumLimbs |->
                             IF k = LimbOf(keep) THEN Pow2(OffsetOf(keep)) ELSE 0]
             IN  IF up THEN BigAdd(trunc, unit) ELSE BigAdd(trunc, FZero)

\* The float nearest p / q for small naturals p, q (q > 0): the division of
\* two exactly representable operands, and the value of a decimal literal.
FRatio(p, q) ==
    LET qr == BigDiv(FromNat(p), q)
    IN  Round53(qr[1], qr[2] # 0)

\* a + b
FAdd(a, b) ==
    IF IsFloat(a) /\ IsFloat(b) THEN Round53(BigAdd(a, b), FALSE) ELSE FZero

\* a * 0.5 (exact)
FHalf(a) == IF IsFloat(a) THEN BigDiv(a, 2)[1] ELSE FZero

\* a / (n * 0.5): the divisor counted in halves, as total_fields is.
FDivHalves(a, n) ==
    IF IsFloat(a)
    THEN LET qr == BigDiv(BigMul(a, 2), n)
         IN  Round53(qr[1], qr[2] # 0)
    ELSE FZero

\* a < b, decided at the most significant limb that differs.
FLess(a, b) ==
    /\ IsFloat(a) /\ IsFloat(b)
    /\ \E k \in 1..NumLimbs :
          a[k] < b[k] /\ \A j \in (k + 1)..NumLimbs : a[j] = b[j]
FGeq(a, b) == ~FLess(a, b)

\* format(x, ".2f") in hundredths: the exact binary value rounded to two
\* decimals, ties to even.
Fmt2(a) ==
    LET h == BigMul(a, 100)
        n == IntPart(h)
        half == LimbBase \div 2
        above == \/ h[NumLimbs - 1] > half
                 \/ h[NumLimbs - 1] = half /\ \E k \in 1..(NumLimbs - 2) : h[k] # 0
        tie == h[NumLimbs - 1] = half /\ \A k \in 1..(NumLimbs - 2) : h[k] = 0
    IN  IF above \/ (tie /\ n % 2 = 1) THEN n + 1 ELSE n

F_1_0 == FromNat(1)
F_0_5 == FRatio(1, 2)
F_0_7 == FRatio(7, 10)
F_0_8 == FRatio(8, 10)

(***************************************************************************)
(* Strings                                                                 *)
(***************************************************************************)
Upper == {"A", "B", "C"}
LowerOf(c) == CASE c = "A" -> "a" [] c = "B" -> "b" [] c = "C" -> "c" [] OTHER -> c
WordChars == {"a", "b", "c", "1", "2", "7", "8", "9", "_"}
SpaceChars == {" "}

\* str.lower()
lower(s) == [i \in 1..Len(s) |-> LowerOf(s[i])]

\* str.strip()
RECURSIVE lstrip(_)
lstrip(s) == IF s # <<>> /\ Head(s) \in SpaceChars THEN lstrip(Tail(s)) ELSE s
RECURSIVE rstrip(_)
rstrip(s) == IF s # <<>> /\ s[Len(s)] \in SpaceChars
             THEN rstrip(SubSeq(s, 1, Len(s) - 1)) ELSE s
strip(s) == rstrip(lstrip(s))

\* re.sub(r'[^\w\s]', '', s)
IsWordOrSpace(c) == c \in WordChars \/ c \in SpaceChars
remove_punct(s) == SelectSeq(s, IsWordOrSpace)

normalize(s) == remove_punct(strip(lower(s)))

(***************************************************************************)
(* difflib.SequenceMatcher(None, a, b).ratio()                             *)
(***************************************************************************)
\* Length of the common run of a from i and b from j, inside [.., ahi) x [.., bhi).
RECURSIVE RunLen(_, _, _, _, _, _)
RunLen(a, b, i, j, ahi, bhi) ==
    IF i < ahi /\ j < bhi /\ a[i] = b[j]
    THEN 1 + RunLen(a, b, i + 1, j + 1, ahi, bhi) ELSE 0

\* find_longest_match: the longest block, earliest in a, then earliest in b.
find_longest_match(a, b, alo, ahi, blo, bhi) ==
    LET cands == {<<i, j, RunLen(a, b, i, j, ahi, bhi)>> :
                      i \in alo..(ahi - 1), j \in blo..(bhi - 1)}
        Better(x, y) == \/ x[3] > y[3]
                        \/ x[3] = y[3] /\ x[1] < y[1]
                        \/ x[3] = y[3] /\ x[1] = y[1] /\ x[2] <= y[2]
    IN  IF \A c \in cands : c[3] = 0 THEN <<alo, blo, 0>>
        ELSE CHOOSE x \in cands : \A y \in cands : Better(x, y)

\* Sum of the sizes of get_matching_blocks().
RECURSIVE matched_size(_, _, _, _, _, _)
matched_size(a, b, alo, ahi, blo, bhi) ==
    LET m == find_longest_match(a, b, alo, ahi, blo, bhi)
        i == m[1]
        j == m[2]
        k == m[3]
    IN  IF k = 0 THEN 0
        ELSE k + (IF alo < i /\ blo < j THEN matched_size(a, b, alo, i, blo, j) ELSE 0)
               + (IF i + k < ahi /\ j + k < bhi
                  THEN matched_size(a, b, i + k, ahi, j + k, bhi) ELSE 0)

ratio(a, b) ==
    LET length == Len(a) + Len(b)
    IN  IF length = 0 THEN F_1_0
        ELSE FRatio(2 * matched_size(a, b, 1, Len(a) + 1, 1, Len(b) + 1), length)

calculate_similarity(str1, str2) == ratio(normalize(str1), normalize(str2))

(***************************************************************************)
(* Rows (backend/app/models/certificate.py)                                *)
(***************************************************************************)
None == <<>>

\* A CertificateData row; NoData is "no row" (the query's .first() is None).
Data(n, r, m, c) ==
    [row |-> TRUE, student_name |-> n, roll_number |-> r, marks |-> m, cert_number |-> c]
NoData ==
    [row |-> FALSE, student_name |-> None, roll_number |-> None, marks |-> None,
     cert_number |-> None]

\* A VerifiedRecord row.
Record(i, n, r, m, c, iss) ==
    [id |-> i, student_name |-> n, roll_number |-> r, marks |-> m, cert_number |-> c,
     issuer |-> iss]
NoRecord == 0

\* A VerificationRequest.
Request(n, r, c, iss) ==
    [student_name |-> n, roll_number |-> r, cert_number |-> c, issuer |-> iss]

(***************************************************************************)
(* VerificationService._calculate_match_score                              *)
(***************************************************************************)
NAME_THRESHOLD == F_0_8
MARKS_THRESHOLD == F_0_7

\* A faulty step: a name below the threshold still adds its similarity.
name_step_partial_credit(cert_data, verified_record, acc) ==
    IF cert_data.student_name # None /\ verified_record.student_name # None
    THEN LET name_similarity ==
                 calculate_similarity(cert_data.student_name, verified_record.student_name)
         IN  IF FGeq(name_similarity, NAME_THRESHOLD)
             THEN [score |-> FAdd(acc.score, name_similarity),
                   total_fields |-> acc.total_fields + 2, mismatches |-> acc.mismatches]
             ELSE [score |-> FAdd(acc.score, name_similarity),
                   total_fields |-> acc.total_fields + 2,
                   mismatches |-> Append(acc.mismatches,
                       <<"Student name mismatch", cert_data.student_name,
                         verified_record.student_name>>)]
    ELSE acc

name_step(cert_data, verified_record, acc) ==
    IF cert_data.student_name # None /\ verified_record.student_name # None
    THEN LET name_similarity ==
                 calculate_similarity(cert_data.student_name, verified_record.student_name)
         IN  IF FGeq(name_similarity, NAME_THRESHOLD)
             THEN [score |-> FAdd(acc.score, name_similarity),
                   total_fields |-> acc.total_fields + 2, mismatches |-> acc.mismatches]
             ELSE [score |-> acc.score, total_fields |-> acc.total_fields + 2,
                   mismatches |-> Append(acc.mismatches,
                       <<"Student name mismatch", cert_data.student_name,
                         verified_record.student_name>>)]
    ELSE acc

roll_step(cert_data, verified_record, acc) ==
    IF cert_data.roll_number # None /\ verified_record.roll_number # None
    THEN IF lower(cert_data.roll_number) = lower(verified_record.roll_number)
         THEN [score |-> FAdd(acc.score, F_1_0),
               total_fields |-> acc.total_fields + 2, mismatches |-> acc.mismatches]
         ELSE [score |-> acc.score, total_fields |-> acc.total_fields + 2,
               mismatches |-> Append(acc.mismatches,
                   <<"Roll number mismatch", cert_data.roll_number,
                     verified_record.roll_number>>)]
    ELSE acc

cert_step(cert_data, verified_record, acc) ==
    IF cert_data.cert_number # None /\ verified_record.cert_number # None
    THEN IF lower(cert_data.cert_number) = lower(verified_record.cert_number)
         THEN [score |-> FAdd(acc.score, F_1_0),
               total_fields |-> acc.total_fields + 2, mismatches |-> acc.mismatches]
         ELSE [score |-> acc.score, total_fields |-> acc.total_fields + 2,
               mismatches |-> Append(acc.mismatches,
                   <<"Certificate number mismatch", cert_data.cert_number,
                     verified_record.cert_number>>)]
    ELSE acc

\* A faulty step: marks count as a whole field in total_fields.
marks_step_whole_weight(cert_data, verified_record, acc) ==
    IF cert_data.marks # None /\ verified_record.marks # None
    THEN LET marks_similarity ==
                 calculate_similarity(cert_data.marks, verified_record.marks)
         IN  IF FGeq(marks_similarity, MARKS_THRESHOLD)
             THEN [score |-> FAdd(acc.score, FHalf(marks_similarity)),
                   total_fields |-> acc.total_fields + 2, mismatches |-> acc.mismatches]
             ELSE [score |-> acc.score, total_fields |-> acc.total_fields + 2,
                   mismatches |-> Append(acc.mismatches,
                       <<"Marks mismatch", cert_data.marks, verified_record.marks>>)]
    ELSE acc

\* A faulty step: matching marks add their whole similarity to the score.
marks_step_unweighted(cert_data, verified_record, acc) ==
    IF cert_data.marks # None /\ verified_record.marks # None
    THEN LET marks_similarity ==
                 calculate_similarity(cert_data.marks, verified_record.marks)
         IN  IF FGeq(marks_similarity, MARKS_THRESHOLD)
             THEN [score |-> FAdd(acc.score, marks_similarity),
                   total_fields |-> acc.total_fields + 1, mismatches |-> acc.mismatches]
             ELSE [score |-> acc.score, total_fields |-> acc.total_fields + 1,
                   mismatches |-> Append(acc.mismatches,
                       <<"Marks mismatch", cert_data.marks, verified_record.marks>>)]
    ELSE acc

marks_step(cert_data, verified_record, acc) ==
    IF cert_data.marks # None /\ verified_record.marks # None
    THEN LET marks_similarity ==
                 calculate_similarity(cert_data.marks, verified_record.marks)
         IN  IF FGeq(marks_similarity, MARKS_THRESHOLD)
             THEN [score |-> FAdd(acc.score, FHalf(marks_similarity)),
                   total_fields |-> acc.total_fields + 1, mismatches |-> acc.mismatches]
             ELSE [score |-> acc.score, total_fields |-> acc.total_fields + 1,
                   mismatches |-> Append(acc.mismatches,
                       <<"Marks mismatch", cert_data.marks, verified_record.marks>>)]
    ELSE acc

\* A faulty scorer: a certificate without extracted data is answered like
\* one without comparable fields.
score_without_data_message(cert_data, verified_record) ==
    IF ~cert_data.row THEN <<FZero, <<<<"No comparable fields found">>>>>>
    ELSE LET start == [score |-> FZero, total_fields |-> 0, mismatches |-> <<>>]
             acc == marks_step(cert_data, verified_record,
                      cert_step(cert_data, verified_record,
                        roll_step(cert_data, verified_record,
                          name_step(cert_data, verified_record, start))))
         IN  IF acc.total_fields = 0 THEN <<FZero, <<<<"No comparable fields found">>>>>>
             ELSE <<FDivHalves(acc.score, acc.total_fields), acc.mismatches>>

\* <<score, mismatches>>.  total_fields is counted in halves (marks weigh 0.5).
calculate_match_score(cert_data, verified_record) ==
    IF ~cert_data.row THEN <<FZero, <<<<"No certificate data available">>>>>>
    ELSE LET start == [score |-> FZero, total_fields |-> 0, mismatches |-> <<>>]
             acc == marks_step(cert_data, verified_record,
                      cert_step(cert_data, verified_record,
                        roll_step(cert_data, verified_record,
                          name_step(cert_data, verified_record, start))))
         IN  IF acc.total_fields = 0 THEN <<FZero, <<<<"No comparable fields found">>>>>>
             ELSE <<FDivHalves(acc.score, acc.total_fields), acc.mismatches>>

(***************************************************************************)
(* Bounds and the values the inputs are drawn from                         *)
(***************************************************************************)
MaxRecords == 2      \* rows of verified_records
MaxRuns == 2         \* verification runs in one behaviour
MaxBulkIds == 3      \* certificate ids in one bulk request
MaxPermuted == 4     \* rows of a table whose every read order is tried

s_a == <<"a">>
s_ab == <<"a", "b">>
s_abc == <<"a", "b", "c">>
s_ABC == <<"A", "B", "C">>
s_1 == <<"1">>
s_12 == <<"1", "2">>
s_7 == <<"7">>
s_8 == <<"8">>
s_9 == <<"9">>
s_9pct == <<"9", "%">>
s_c1 == <<"c", "1">>
s_c2 == <<"c", "2">>
s_c3 == <<"c", "3">>
s_x == <<"x">>
s_y == <<"y">>
s_a_c == <<"a", "_", "c">>
s_C1 == <<"C", "1">>
s_98 == <<"9", "8">>
s_989 == <<"9", "8", "9">>

RecordPool ==
    { Record(1, s_abc, s_1, s_9, s_c1, s_x),
      Record(2, s_ab, s_12, s_8, s_c2, s_x),
      Record(3, s_ABC, s_1, None, s_c3, s_y) }

DataPool ==
    { Data(s_ab, s_1, s_9pct, s_c1),
      Data(s_ab, None, None, None),
      Data(s_a, s_1, None, None),
      Data(s_a, s_1, None, s_c2),
      Data(s_a, s_1, s_7, s_c2),
      Data(s_ab, s_1, s_7, s_c1),
      Data(None, None, None, None),
      NoData }

RequestPool ==
    { Request(None, None, None, None),
      Request(s_a, None, None, None) }

\* What the second certificate may hold (the first may hold any row of DataPool).
SecondPool == {Data(s_ab, s_1, s_9pct, s_c1)}

CertIds == {1, 2}
UnknownIds == {3}

\* query.limit(10)
QUERY_LIMIT == 10

\* A table of one row more than the limit of the query: every row has
\* issuer y and a name that contains a; row 10 alone is named ab.
Digits == <<"1", "2", "7", "8", "9">>
cert_of(k) == <<"c", Digits[(k \div 5) + 1], Digits[(k % 5) + 1]>>
BigTable ==
    {Record(10 + k, IF k = 0 THEN s_ab ELSE s_abc, s_12, None, cert_of(k), s_y) :
        k \in 0..QUERY_LIMIT}

\* The tables a function is called with on its own.
SmallTables == {T \in SUBSET RecordPool : Cardinality(T) <= MaxRecords}
TablePool == SmallTables \cup {BigTable}

\* The requests _build_verification_criteria is called with on its own.
CallerPool ==
    {Request(n, r, c, iss) : n \in {None, s_a, s_a_c}, r \in {None, s_1},
                             c \in {None, s_c1, s_C1}, iss \in {None, s_y}}

\* The rows _calculate_match_score is called with: every choice of present
\* and absent fields on either side.
ScoredData ==
    DataPool \cup
    {Data(n, r, m, c) : n \in {None, s_a, s_ab}, r \in {None, s_1},
                        m \in {None, s_9pct, s_98}, c \in {None, s_c1}}
ScoredRecords ==
    RecordPool \cup BigTable \cup
    {Record(30, n, r, m, c, s_x) : n \in {None, s_ab, s_abc}, r \in {None, s_1},
                                   m \in {None, s_9pct, s_989, s_8},
                                   c \in {None, s_c1, s_C1}}

\* calculate_match_score on the rows of the pools, computed once.
ScoreTable ==
    [cert_data \in ScoredData |->
        [verified_record \in ScoredRecords |->
            calculate_match_score(cert_data, verified_record)]]
match_score(cert_data, verified_record) == ScoreTable[cert_data][verified_record]

(***************************************************************************)
(* VerificationService._build_verification_criteria, _find_matching_records*)
(***************************************************************************)
\* a or b
Or(a, b) == IF a # None THEN a ELSE b

\* A faulty builder: the extracted value is preferred to the caller's.
build_preferring_extracted(request, cert_data) ==
    [student_name |-> Or(IF cert_data.row THEN cert_data.student_name ELSE None,
                         request.student_name),
     roll_number |-> Or(IF cert_data.row THEN cert_data.roll_number ELSE None,
                        request.roll_number),
     cert_number |-> Or(IF cert_data.row THEN cert_data.cert_number ELSE None,
                        request.cert_number),
     issuer |-> request.issuer]

\* The criteria dict; a key whose value is falsy is dropped, here None.
build_verification_criteria(request, cert_data) ==
    [student_name |-> Or(request.student_name,
                         IF cert_data.row THEN cert_data.student_name ELSE None),
     roll_number |-> Or(request.roll_number,
                        IF cert_data.row THEN cert_data.roll_number ELSE None),
     cert_number |-> Or(request.cert_number,
                        IF cert_data.row THEN cert_data.cert_number ELSE None),
     issuer |-> request.issuer]

CriteriaEmpty(criteria) ==
    /\ criteria.student_name = None /\ criteria.roll_number = None
    /\ criteria.cert_number = None /\ criteria.issuer = None

\* SQL LIKE, case-insensitive: % is any run of characters, _ any one.
RECURSIVE like(_, _)
like(pattern, str) ==
    IF pattern = <<>> THEN str = <<>>
    ELSE IF Head(pattern) = "%"
         THEN like(Tail(pattern), str) \/ (str # <<>> /\ like(pattern, Tail(str)))
    ELSE /\ str # <<>>
         /\ Head(pattern) = "_" \/ LowerOf(Head(pattern)) = LowerOf(Head(str))
         /\ like(Tail(pattern), Tail(str))

\* column.ilike(f"%{value}%")
ilike_contains(column, value) == like(<<"%">> \o value \o <<"%">>, column)

\* The WHERE clause: every condition of a key present in criteria.
record_matches(criteria, rec) ==
    /\ criteria.student_name # None =>
           ilike_contains(rec.student_name, criteria.student_name)
    /\ criteria.roll_number # None =>
           \/ ilike_contains(rec.roll_number, criteria.roll_number)
           \/ rec.roll_number = criteria.roll_number
    /\ criteria.cert_number # None => rec.cert_number = criteria.cert_number
    /\ criteria.issuer # None => ilike_contains(rec.issuer, criteria.issuer)

RECURSIVE Perms(_)
Perms(S) == IF S = {} THEN {<<>>}
            ELSE UNION {{<<e>> \o t : t \in Perms(S \ {e})} : e \in S}

\* The rows of S by ascending id, and the same list started at its k-th row.
RECURSIVE ById(_)
ById(S) == IF S = {} THEN <<>>
           ELSE LET first == CHOOSE rec \in S : \A other \in S : rec.id <= other.id
                IN  <<first>> \o ById(S \ {first})
Reverse(rows) == [k \in 1..Len(rows) |-> rows[Len(rows) + 1 - k]]
Rotations(rows) ==
    {SubSeq(rows, k, Len(rows)) \o SubSeq(rows, 1, k - 1) : k \in 1..Len(rows)}

\* The orders in which the database may read the rows of a table: every
\* order for a table of up to MaxPermuted rows; for a larger table the
\* rotations of the order by id, forwards and backwards, stand for all.
read_orders(table) ==
    IF Cardinality(table) <= MaxPermuted THEN Perms(table)
    ELSE Rotations(ById(table)) \cup Rotations(Reverse(ById(table)))

\* query.filter(and_(*conditions)).limit(10).all() over rows read in this order
query_limit(criteria, rows) ==
    LET hits == SelectSeq(rows, LAMBDA rec : record_matches(criteria, rec))
    IN  IF Len(hits) <= QUERY_LIMIT THEN hits ELSE SubSeq(hits, 1, QUERY_LIMIT)

\* A faulty finder: the early return for empty criteria is missing.
find_without_empty_case(criteria, rows) == query_limit(criteria, rows)

\* _find_matching_records when the database reads the rows in this order
find_in_order(criteria, rows) ==
    IF CriteriaEmpty(criteria) THEN <<>> ELSE query_limit(criteria, rows)

\* The lists the query may return: it has no ORDER BY, so the rows that
\* satisfy the WHERE clause come in any order, cut to the limit.
find_matching_records(criteria, table) ==
    {find_in_order(criteria, rows) : rows \in read_orders(table)}

(***************************************************************************)
(* VerificationService._calculate_verification_result                      *)
(***************************************************************************)
VERIFICATION_THRESHOLD == F_0_8

\* if score > best_score
better_score(score, best_score) == FLess(best_score, score)

\* A faulty pass: the candidate replaces the best whatever its score.
keep_latest(best, match, scored) == <<scored[1], match.id, scored[2]>>

\* One pass of the loop over matches; best is <<best_score, best_match,
\* mismatches>> and scored is what _calculate_match_score returned for match.
keep_best(best, match, scored) ==
    IF better_score(scored[1], best[1]) THEN <<scored[1], match.id, scored[2]>>
    ELSE best

RECURSIVE best_of(_, _, _)
best_of(cert_data, matches, best) ==
    IF matches = <<>> THEN best
    ELSE best_of(cert_data, Tail(matches),
                 keep_best(best, Head(matches), match_score(cert_data, Head(matches))))

\* A faulty comparison: > where the code has >=.
is_verified_above(best_score) == FLess(VERIFICATION_THRESHOLD, best_score)

\* is_verified = best_score >= settings.VERIFICATION_THRESHOLD
is_verified_at(best_score) == FGeq(best_score, VERIFICATION_THRESHOLD)

result_of(best) ==
    [is_verified |-> is_verified_at(best[1]), confidence_score |-> best[1],
     matched_record |-> best[2], mismatches |-> best[3]]

\* A faulty variant: the early return for an empty list is missing.
calculate_without_empty_case(cert_data, matches) ==
    result_of(best_of(cert_data, matches, <<FZero, NoRecord, <<>>>>))

calculate_verification_result(cert_data, matches) ==
    IF matches = <<>>
    THEN [is_verified |-> FALSE, confidence_score |-> FZero, matched_record |-> NoRecord,
          mismatches |-> <<<<"No matching verified records found">>>>]
    ELSE result_of(best_of(cert_data, matches, <<FZero, NoRecord, <<>>>>))

(***************************************************************************)
(* VerificationService._create_alerts_if_needed: the Alert objects it adds *)
(* to the session, in order                                                *)
(***************************************************************************)
LOW_CONFIDENCE == F_0_5
MISMATCH_LIMIT == 2

Alert(cert_id, reason, level) ==
    [cert_id |-> cert_id, reason |-> reason, level |-> level,
     resolved |-> FALSE, resolved_at |-> 0]

failed_alert(cert_id, result) ==
    IF ~result.is_verified
    THEN <<Alert(cert_id,
                 <<"Certificate verification failed - no matching verified records">>,
                 "critical")>>
    ELSE <<>>

\* A faulty rule: every score below 1.0 is taken as low.
low_confidence_alert_below_one(cert_id, result) ==
    IF FLess(result.confidence_score, F_1_0)
    THEN <<Alert(cert_id, <<"Low confidence score", Fmt2(result.confidence_score)>>,
                 "warning")>>
    ELSE <<>>

low_confidence_alert(cert_id, result) ==
    IF FLess(result.confidence_score, LOW_CONFIDENCE)
    THEN <<Alert(cert_id, <<"Low confidence score", Fmt2(result.confidence_score)>>,
                 "warning")>>
    ELSE <<>>

\* A faulty rule: >= where the code has >.
mismatch_alert_at_limit(cert_id, result) ==
    IF Len(result.mismatches) >= MISMATCH_LIMIT
    THEN <<Alert(cert_id, <<"Multiple mismatches detected", Len(result.mismatches)>>,
                 "critical")>>
    ELSE <<>>

mismatch_alert(cert_id, result) ==
    IF Len(result.mismatches) > MISMATCH_LIMIT
    THEN <<Alert(cert_id, <<"Multiple mismatches detected", Len(result.mismatches)>>,
                 "critical")>>
    ELSE <<>>

create_alerts(cert_id, result) ==
    failed_alert(cert_id, result) \o low_confidence_alert(cert_id, result)
        \o mismatch_alert(cert_id, result)

(***************************************************************************)
(* State                                                                   *)
(***************************************************************************)
VARIABLES
    certificates,   \* ids of the rows of table certificates
    certData,       \* certificate id -> its certificate_data row, or NoData
    records,        \* rows of table verified_records
    alerts,         \* rows of table alerts, oldest first; run is the
                    \* verification run that created the row
    response,       \* what POST /certificate/{id} returned, when it was the
                    \* latest request
    bulk,           \* POST /bulk, when it is the latest request: the loop of
                    \* bulk_verify_certificates and what it returned
    last,           \* the latest run of verify_certificate: what it read and decided
    generated,      \* per verification run, how many alerts it added to its session
    call,           \* one call of a function of the service on its own: its
                    \* arguments and, once it has returned, its value
    procs,          \* requests in progress in server processes that share the
                    \* database: per process, where its handler stands and
                    \* what its session holds
    dataRows,       \* rows of table certificate_data, oldest first, where the
                    \* extraction endpoint writes them (certData is the table
                    \* read by .first() per certificate)
    autoflush,      \* the autoflush setting of the session factory
    now             \* the clock read by datetime.now()

vars == <<certificates, certData, records, alerts, response, bulk, last, generated, call,
          procs, dataRows, autoflush, now>>
db == <<certificates, certData, records, alerts>>
\* What the verification endpoints served one at a time leave alone.
others == <<procs, dataRows, autoflush, now>>

NoVerdict == <<>>
Verdict(result, run_alerts) ==
    [is_verified |-> result.is_verified, confidence_score |-> result.confidence_score,
     matched_record |-> result.matched_record, mismatches |-> result.mismatches,
     alerts |-> run_alerts]

\* The VerificationResponse bulk_verify_certificates builds for an id it
\* could not verify.
ErrorVerdict(message) ==
    [is_verified |-> FALSE, confidence_score |-> FZero, matched_record |-> NoRecord,
     mismatches |-> <<message>>, alerts |-> <<>>]

\* Requests are served one at a time; response and bulk describe the latest.
NoResponse == [status |-> 0, cert_id |-> 0, detail |-> "", verdict |-> NoVerdict]
BulkIdle == [pc |-> "idle", ids |-> <<>>, i |-> 1, results |-> <<>>,
             session |-> "active", faults |-> {}, status |-> 0]
NoCall == [op |-> "none"]
NoProcs == <<>>
\* No request in progress in another process, nothing extracted there.
OthersIdle == procs = NoProcs /\ dataRows = <<>> /\ autoflush = FALSE /\ now = 0

Init ==
    /\ certificates = CertIds
    /\ certData \in {f \in [CertIds -> DataPool] : f[2] \in SecondPool}
    /\ records \in {T \in SUBSET RecordPool : Cardinality(T) <= MaxRecords}
    /\ alerts = <<>>
    /\ response = NoResponse
    /\ bulk = BulkIdle
    /\ last = [run |-> 0, cert_id |-> 0, cert_data |-> NoData, matches |-> <<>>,
               result |-> ErrorVerdict(<<>>),
               alerts |-> <<>>, committed |-> FALSE]
    /\ generated = <<>>
    /\ call = NoCall
    /\ OthersIdle

(***************************************************************************)
(* Database session                                                        *)
(***************************************************************************)
\* db.query(CertificateData).filter(cert_id == id).first()
cert_data_of(cert_id) ==
    IF cert_id \in DOMAIN certData THEN certData[cert_id] ELSE NoData

\* A faulty commit: when it fails, the first pending row has reached the table.
commit_partial(pending, ok) ==
    IF ok \/ pending = <<>> THEN pending ELSE <<Head(pending)>>

\* db.commit() of the session's pending alerts: the rows that reach the
\* table.  A commit is one transaction: it stores every pending row, or it
\* fails, the transaction is rolled back and the pending rows are expunged.
commit(pending, ok) == IF ok THEN pending ELSE <<>>

Stored(pending, run) ==
    [k \in 1..Len(pending) |->
        [cert_id |-> pending[k].cert_id, reason |-> pending[k].reason,
         level |-> pending[k].level, resolved |-> pending[k].resolved,
         resolved_at |-> pending[k].resolved_at, run |-> run]]

\* A faulty write: the committed rows replace the rows of the table.
replace_alerts(table, rows) == rows

\* self.db.add(alert), committed: the rows join the table, after the rows
\* that are there.
add_alerts(table, rows) == table \o rows

\* verify_certificate from line 26 on, for an existing certificate: reads
\* the rows, decides, adds the alerts and commits.  ok is whether the commit
\* succeeds; matches is the list the query returned.
Run(cert_id, request, matches, ok) ==
    \E cert_data \in {cert_data_of(cert_id)} :
    \E result \in {calculate_verification_result(cert_data, matches)} :
    \E pending \in {create_alerts(cert_id, result)} :
    \E run \in {Len(generated) + 1} :
        /\ last' = [run |-> run, cert_id |-> cert_id, cert_data |-> cert_data,
                    matches |-> matches, result |-> result, alerts |-> pending,
                    committed |-> ok]
        /\ generated' = Append(generated, Len(pending))
        /\ alerts' = add_alerts(alerts, Stored(commit(pending, ok), run))

Candidates(cert_id, request) ==
    find_matching_records(
        build_verification_criteria(request, cert_data_of(cert_id)), records)

(***************************************************************************)
(* POST /certificate/{certificate_id}  (api/v1/verify.py)                  *)
(***************************************************************************)
\* A faulty handler: the missing certificate is answered with a verdict, as
\* bulk_verify_certificates does.
not_found_as_verdict(cert_id) ==
    [status |-> 200, cert_id |-> cert_id, detail |-> "",
     verdict |-> <<ErrorVerdict(<<"Certificate not found">>)>>]

\* except ValueError as e: raise HTTPException(status_code=404, detail=str(e))
not_found_response(cert_id) ==
    [status |-> 404, cert_id |-> cert_id, detail |-> "Certificate not found",
     verdict |-> NoVerdict]

VerifyNotFound(cert_id) ==
    /\ bulk.pc # "loop"
    /\ cert_id \notin certificates
    /\ response' = not_found_response(cert_id)
    /\ bulk' = BulkIdle
    /\ UNCHANGED <<db, last, generated, call, others>>

VerifyOk(cert_id, request) ==
    /\ bulk.pc # "loop"
    /\ cert_id \in certificates
    /\ Len(generated) < MaxRuns
    /\ \E matches \in Candidates(cert_id, request) :
          Run(cert_id, request, matches, TRUE)
    /\ response' = [status |-> 200, cert_id |-> cert_id, detail |-> "",
                    verdict |-> <<Verdict(last'.result, last'.alerts)>>]
    /\ bulk' = BulkIdle
    /\ UNCHANGED <<certificates, certData, records, call, others>>

\* db.commit() raises: the endpoint answers 500.
VerifyCommitFails(cert_id, request) ==
    /\ bulk.pc # "loop"
    /\ cert_id \in certificates
    /\ Len(generated) < MaxRuns
    /\ \E matches \in Candidates(cert_id, request) :
          Run(cert_id, request, matches, FALSE)
    /\ response' = [status |-> 500, cert_id |-> cert_id,
                    detail |-> "Verification error", verdict |-> NoVerdict]
    /\ bulk' = BulkIdle
    /\ UNCHANGED <<certificates, certData, records, call, others>>

VerifyCertificate ==
    \E cert_id \in CertIds \cup UnknownIds, request \in RequestPool :
        \/ VerifyNotFound(cert_id)
        \/ VerifyOk(cert_id, request)
        \/ VerifyCommitFails(cert_id, request)

(***************************************************************************)
(* POST /bulk  (api/v1/verify.py) and bulk_verify_certificates: one action *)
(* per pass of the loop over certificate_ids.  The whole request shares    *)
(* one database session.                                                   *)
(***************************************************************************)
BULK_LIMIT == 100

RECURSIVE SeqsUpTo(_, _)
SeqsUpTo(S, n) ==
    IF n = 0 THEN {<<>>}
    ELSE LET shorter == SeqsUpTo(S, n - 1)
         IN  shorter \cup {Append(t, e) : t \in shorter, e \in S}

Range(f) == {f[k] : k \in DOMAIN f}
RunsNeeded(ids) == Cardinality({k \in DOMAIN ids : ids[k] \in certificates})

\* results[cert_id] = verdict
store(results, cert_id, verdict) ==
    [k \in DOMAIN results \cup {cert_id} |->
        IF k = cert_id THEN verdict ELSE results[k]]

\* A faulty handler: the exception is swallowed and nothing is stored.
on_exception_dropped(results, cert_id, e) == results

\* except Exception as e: results[cert_id] = VerificationResponse(...)
on_exception(results, cert_id, e) ==
    store(results, cert_id, ErrorVerdict(<<"Verification error", e>>))

\* A faulty request: the roll number is passed as the name and the name as
\* the roll number.
bulk_request_swapped(cert_data) ==
    Request(IF cert_data.row THEN cert_data.roll_number ELSE None,
            IF cert_data.row THEN cert_data.student_name ELSE None,
            IF cert_data.row THEN cert_data.cert_number ELSE None,
            None)

\* The request bulk_verify_certificates builds from the certificate's own data.
bulk_request(cert_data) ==
    Request(IF cert_data.row THEN cert_data.student_name ELSE None,
            IF cert_data.row THEN cert_data.roll_number ELSE None,
            IF cert_data.row THEN cert_data.cert_number ELSE None,
            None)

BulkStart(ids) ==
    /\ bulk.pc # "loop"
    /\ Len(ids) <= BULK_LIMIT
    /\ Len(generated) + RunsNeeded(ids) <= MaxRuns
    /\ bulk' = [pc |-> "loop", ids |-> ids, i |-> 1, results |-> <<>>,
                session |-> "active", faults |-> {}, status |-> 0]
    /\ response' = NoResponse
    /\ UNCHANGED <<db, last, generated, call, others>>

\* The session's transaction failed earlier in this request and was never
\* rolled back: the first query of the pass raises.
BulkSessionInvalid ==
    /\ bulk.pc = "loop" /\ bulk.i <= Len(bulk.ids)
    /\ bulk.session = "inactive"
    /\ bulk' = [bulk EXCEPT !.i = @ + 1,
                            !.results = on_exception(@, bulk.ids[bulk.i], "session")]
    /\ UNCHANGED <<db, response, last, generated, call, others>>

BulkNotFound ==
    /\ bulk.pc = "loop" /\ bulk.i <= Len(bulk.ids)
    /\ bulk.session = "active"
    /\ bulk.ids[bulk.i] \notin certificates
    /\ bulk' = [bulk EXCEPT !.i = @ + 1,
                            !.results = store(@, bulk.ids[bulk.i],
                                              ErrorVerdict(<<"Certificate not found">>))]
    /\ UNCHANGED <<db, response, last, generated, call, others>>

BulkVerifyOk ==
    /\ bulk.pc = "loop" /\ bulk.i <= Len(bulk.ids)
    /\ bulk.session = "active"
    /\ bulk.ids[bulk.i] \in certificates
    /\ LET cert_id == bulk.ids[bulk.i]
           request == bulk_request(cert_data_of(cert_id))
       IN  /\ \E matches \in Candidates(cert_id, request) :
                 Run(cert_id, request, matches, TRUE)
           /\ bulk' = [bulk EXCEPT !.i = @ + 1,
                                   !.results = store(@, cert_id,
                                       Verdict(last'.result, last'.alerts))]
    /\ UNCHANGED <<certificates, certData, records, response, call, others>>

\* db.commit() raises inside verify_certificate; the except clause of the
\* loop records it and the loop goes on with the same session.
BulkCommitFails ==
    /\ bulk.pc = "loop" /\ bulk.i <= Len(bulk.ids)
    /\ bulk.session = "active"
    /\ bulk.ids[bulk.i] \in certificates
    /\ LET cert_id == bulk.ids[bulk.i]
           request == bulk_request(cert_data_of(cert_id))
       IN  /\ \E matches \in Candidates(cert_id, request) :
                 Run(cert_id, request, matches, FALSE)
           /\ bulk' = [bulk EXCEPT !.i = @ + 1,
                                   !.results = on_exception(@, cert_id, "commit"),
                                   !.session = "inactive",
                                   !.faults = @ \cup {cert_id}]
    /\ UNCHANGED <<certificates, certData, records, response, call, others>>

\* The loop is over: the endpoint returns the results and their summary.
BulkReturn ==
    /\ bulk.pc = "loop" /\ bulk.i > Len(bulk.ids)
    /\ bulk' = [bulk EXCEPT !.pc = "done", !.status = 200]
    /\ UNCHANGED <<db, response, last, generated, call, others>>

\* One pass of the loop of bulk_verify_certificates, or its return.
BulkStep ==
    \/ BulkSessionInvalid
    \/ BulkNotFound
    \/ BulkVerifyOk
    \/ BulkCommitFails
    \/ BulkReturn

BulkVerify ==
    \/ \E ids \in SeqsUpTo(CertIds \cup UnknownIds, MaxBulkIds) : BulkStart(ids)
    \/ BulkStep

Next == VerifyCertificate \/ BulkVerify
Spec == Init /\ [][Next]_vars

\* The loop of bulk_verify_certificates is sequential code: once a request
\* is in the loop, its next pass is taken.
FairSpec == Spec /\ WF_vars(BulkStep)

(***************************************************************************)
(* The functions of VerificationService called on their own: the initial   *)
(* state holds the arguments of one call, the action of the function       *)
(* applies it.  verify is verify_certificate up to its verdict, called     *)
(* again and again with the same arguments on the same tables.             *)
(***************************************************************************)
CriteriaCalls ==
    {[op |-> "criteria", request |-> request, cert_data |-> cert_data,
      returned |-> FALSE, value |-> None] :
        request \in CallerPool, cert_data \in DataPool}

FindCalls ==
    {[op |-> "find", criteria |-> build_verification_criteria(request, cert_data),
      table |-> table, returned |-> FALSE, value |-> <<>>] :
        request \in CallerPool, cert_data \in DataPool, table \in TablePool}

ScoreCalls ==
    {[op |-> "score", cert_data |-> cert_data, verified_record |-> verified_record,
      returned |-> FALSE, value |-> <<>>] :
        cert_data \in ScoredData, verified_record \in ScoredRecords}

VerifyCalls ==
    {[op |-> "verify", request |-> request, cert_data |-> cert_data, table |-> table,
      results |-> <<>>] :
        request \in RequestPool \cup {Request(None, None, None, s_y)},
        cert_data \in DataPool, table \in TablePool}

CallInit ==
    /\ call \in CriteriaCalls \cup FindCalls \cup ScoreCalls \cup VerifyCalls
    /\ certificates = {}
    /\ certData = <<>>
    /\ records = {}
    /\ alerts = <<>>
    /\ response = NoResponse
    /\ bulk = BulkIdle
    /\ last = [run |-> 0, cert_id |-> 0, cert_data |-> NoData, matches |-> <<>>,
               result |-> ErrorVerdict(<<>>),
               alerts |-> <<>>, committed |-> FALSE]
    /\ generated = <<>>
    /\ OthersIdle

CallBuildCriteria ==
    /\ call.op = "criteria" /\ ~call.returned
    /\ call' = [call EXCEPT !.returned = TRUE,
                            !.value = build_verification_criteria(call.request,
                                                                  call.cert_data)]
    /\ UNCHANGED <<db, response, bulk, last, generated, others>>

CallFind ==
    /\ call.op = "find" /\ ~call.returned
    /\ \E rows \in read_orders(call.table) :
          call' = [call EXCEPT !.returned = TRUE,
                               !.value = find_in_order(call.criteria, rows)]
    /\ UNCHANGED <<db, response, bulk, last, generated, others>>

CallScore ==
    /\ call.op = "score" /\ ~call.returned
    /\ call' = [call EXCEPT !.returned = TRUE,
                            !.value = match_score(call.cert_data, call.verified_record)]
    /\ UNCHANGED <<db, response, bulk, last, generated, others>>

\* verify_certificate, lines 26 to 38 without the commit: criteria,
\* candidates, verdict and the alerts created for it.
CallVerify ==
    /\ call.op = "verify" /\ Len(call.results) < MaxRuns
    /\ \E matches \in find_matching_records(
              build_verification_criteria(call.request, call.cert_data), call.table) :
       \E result \in {calculate_verification_result(call.cert_data, matches)} :
          call' = [call EXCEPT !.results = Append(@,
                      [matches |-> matches, result |-> result,
                       alerts |-> create_alerts(1, result)])]
    /\ UNCHANGED <<db, response, bulk, last, generated, others>>

CallNext == CallBuildCriteria \/ CallFind \/ CallScore \/ CallVerify
CallSpec == CallInit /\ [][CallNext]_vars

(***************************************************************************)
(* Requests served by several server processes on one database.  Each      *)
(* process has its own session; what a handler does between two database   *)
(* statements is local to it, so a step is one statement, or one commit,   *)
(* with the local work before it.                                          *)
(***************************************************************************)
\* Two processes: the races looked at are between two calls.
Procs == {1, 2}

IdleProc == [op |-> "none", pc |-> "idle"]
AtRest(p) == procs[p].pc \in {"idle", "done"}

(***************************************************************************)
(* POST /certificate/{certificate_id} in two processes: verify_certificate *)
(* step by step.  Read is lines 21 to 35 (the queries and the verdict),    *)
(* Add is the self.db.add(alert) calls of _create_alerts_if_needed, Commit *)
(* its self.db.commit().                                                   *)
(***************************************************************************)
RaceInit ==
    /\ certificates = CertIds
    /\ certData \in {f \in [CertIds -> DataPool] : f[2] \in SecondPool}
    /\ records \in {T \in SUBSET RecordPool : Cardinality(T) <= MaxRecords}
    /\ alerts = <<>>
    /\ response = NoResponse
    /\ bulk = BulkIdle
    /\ last = [run |-> 0, cert_id |-> 0, cert_data |-> NoData, matches |-> <<>>,
               result |-> ErrorVerdict(<<>>),
               alerts |-> <<>>, committed |-> FALSE]
    /\ generated = <<>>
    /\ call = NoCall
    /\ procs = [p \in Procs |-> IdleProc]
    /\ dataRows = <<>>
    /\ autoflush = FALSE
    /\ now = 0

RaceNotFound(p, cert_id) ==
    /\ AtRest(p)
    /\ cert_id \notin certificates
    /\ procs' = [procs EXCEPT ![p] = [op |-> "verify", pc |-> "done", cert_id |-> cert_id,
                                      status |-> 404]]
    /\ UNCHANGED <<db, response, bulk, last, generated, call, dataRows, autoflush, now>>

RaceRead(p, cert_id, request) ==
    /\ AtRest(p)
    /\ cert_id \in certificates
    /\ Len(generated) + Cardinality({q \in Procs : procs[q].pc = "read"})
           < MaxRuns
    /\ \E matches \in Candidates(cert_id, request) :
          procs' = [procs EXCEPT ![p] =
                       [op |-> "verify", pc |-> "read", cert_id |-> cert_id,
                        result |-> calculate_verification_result(
                                       cert_data_of(cert_id), matches)]]
    /\ UNCHANGED <<db, response, bulk, last, generated, call, dataRows, autoflush, now>>

\* No query comes before the adds: what the table holds for the certificate
\* is not looked at.
RaceAdd(p) ==
    /\ procs[p].op = "verify" /\ procs[p].pc = "read"
    /\ \E pending \in {create_alerts(procs[p].cert_id, procs[p].result)} :
          /\ procs' = [procs EXCEPT ![p] =
                         [op |-> "verify", pc |-> "added", cert_id |-> procs[p].cert_id,
                          result |-> procs[p].result, pending |-> pending,
                          run |-> Len(generated) + 1]]
          /\ generated' = Append(generated, Len(pending))
    /\ UNCHANGED <<db, response, bulk, last, call, dataRows, autoflush, now>>

RaceCommit(p, ok) ==
    /\ procs[p].op = "verify" /\ procs[p].pc = "added"
    /\ alerts' = add_alerts(alerts, Stored(commit(procs[p].pending, ok), procs[p].run))
    /\ procs' = [procs EXCEPT ![p] =
                    [op |-> "verify", pc |-> "done", cert_id |-> procs[p].cert_id,
                     status |-> IF ok THEN 200 ELSE 500]]
    /\ UNCHANGED <<certificates, certData, records, response, bulk, last, generated,
                   call, dataRows, autoflush, now>>

RaceNext ==
    \E p \in Procs :
        \/ \E cert_id \in UnknownIds : RaceNotFound(p, cert_id)
        \/ \E cert_id \in CertIds, request \in RequestPool : RaceRead(p, cert_id, request)
        \/ RaceAdd(p)
        \/ \E ok \in BOOLEAN : RaceCommit(p, ok)

RaceSpec == RaceInit /\ [][RaceNext]_vars

(***************************************************************************)
(* Bulk upload of verified records (api/v1/upload.py, UploaderService).    *)
(* The rows keep no issued_at column here: no query of the model reads it; *)
(* the date only decides whether a row of a file parses.                   *)
(***************************************************************************)
UPLOAD_LIMIT == 1000
MaxBatch == 3

d_iso == <<"2", "0", "2", "3", "-", "0", "5", "-", "0", "1">>
d_iso_time == <<"2", "0", "2", "3", "-", "0", "6", "-", "1", "5", "T",
                "0", "0", ":", "0", "0", ":", "0", "0">>
d_dmy == <<"0", "1", "/", "0", "5", "/", "2", "0", "2", "3">>
d_feb30 == <<"2", "0", "2", "3", "-", "0", "2", "-", "3", "0">>

DecDigits == <<"0", "1", "2", "3", "4", "5", "6", "7", "8", "9">>
IsDigit(c) == \E n \in 1..10 : DecDigits[n] = c
DigitValue(c) == (CHOOSE n \in 1..10 : DecDigits[n] = c) - 1

RECURSIVE to_int(_)
to_int(s) ==
    IF s = <<>> THEN 0
    ELSE 10 * to_int(SubSeq(s, 1, Len(s) - 1)) + DigitValue(s[Len(s)])

days_in_month(year, month) ==
    IF month \in {4, 6, 9, 11} THEN 30
    ELSE IF month # 2 THEN 31
    ELSE IF year % 4 = 0 /\ (year % 100 # 0 \/ year % 400 = 0) THEN 29
    ELSE 28

\* date.fromisoformat: <<year, month, day>>, or None where it raises.
date_fromisoformat(s) ==
    IF /\ Len(s) = 10
       /\ s[5] = "-" /\ s[8] = "-"
       /\ \A k \in {1, 2, 3, 4, 6, 7, 9, 10} : IsDigit(s[k])
    THEN LET year == to_int(SubSeq(s, 1, 4))
             month == to_int(SubSeq(s, 6, 7))
             day == to_int(SubSeq(s, 9, 10))
         IN  IF year >= 1 /\ month \in 1..12 /\ day \in 1..days_in_month(year, month)
             THEN <<year, month, day>>
             ELSE None
    ELSE None

\* The time part HH:MM:SS: <<hour, minute, second>>, or None.
time_fromisoformat(s) ==
    IF /\ Len(s) = 8
       /\ s[3] = ":" /\ s[6] = ":"
       /\ \A k \in {1, 2, 4, 5, 7, 8} : IsDigit(s[k])
    THEN LET hour == to_int(SubSeq(s, 1, 2))
             minute == to_int(SubSeq(s, 4, 5))
             second == to_int(SubSeq(s, 7, 8))
         IN  IF hour \in 0..23 /\ minute \in 0..59 /\ second \in 0..59
             THEN <<hour, minute, second>>
             ELSE None
    ELSE None

\* datetime.fromisoformat on YYYY-MM-DD and on YYYY-MM-DD, one separating
\* character, HH:MM:SS: the date and time as a tuple, or None where it
\* raises ValueError.
fromisoformat(s) ==
    IF Len(s) = 10
    THEN IF date_fromisoformat(s) = None THEN None
         ELSE date_fromisoformat(s) \o <<0, 0, 0>>
    ELSE IF Len(s) = 19
    THEN IF date_fromisoformat(SubSeq(s, 1, 10)) = None
              \/ time_fromisoformat(SubSeq(s, 12, 19)) = None
         THEN None
         ELSE date_fromisoformat(SubSeq(s, 1, 10)) \o time_fromisoformat(SubSeq(s, 12, 19))
    ELSE None

\* A row of an uploaded file, as csv.DictReader or json.loads gives it.
FileRow(c, d) ==
    [student_name |-> s_ab, roll_number |-> s_1, marks |-> s_9pct, cert_number |-> c,
     issuer |-> s_x, issued_at |-> d]
FileRows == {FileRow(s_c2, d_iso), FileRow(s_c3, d_iso_time), FileRow(s_c3, d_dmy)}

\* VerifiedRecordCreate(...) of a row.
RecordCreate(row) ==
    [student_name |-> row.student_name, roll_number |-> row.roll_number,
     marks |-> row.marks, cert_number |-> row.cert_number, issuer |-> row.issuer,
     issued_at |-> fromisoformat(row.issued_at)]

\* The row raises nothing in the inner try of the file loop.
parses(row) == fromisoformat(row.issued_at) # None

\* The loop over the rows of the file: a row that raises is passed over
\* (except Exception: continue), the others become the records to upload.
parse_rows(rows) ==
    LET kept == SelectSeq(rows, parses)
    IN  [k \in 1..Len(kept) |-> RecordCreate(kept[k])]

\* The lists POST /verified-records/bulk is called with (already validated).
BatchPool ==
    SeqsUpTo({RecordCreate(FileRow(c, d_iso)) : c \in {s_c1, s_c2}}, MaxBatch)
FilePool == SeqsUpTo(FileRows, MaxBatch)

\* VerifiedRecord(...) of the k-th record of the upload of process p.
new_record(p, k, record_data) ==
    Record(100 * p + k, record_data.student_name, record_data.roll_number,
           record_data.marks, record_data.cert_number, record_data.issuer)

Numbers(rows) == {r.cert_number : r \in rows}

\* A faulty table: no unique constraint.
unique_never_violated(rows, table) == FALSE

\* cert_number = Column(String, unique=True): inserting rows into table
\* breaks the constraint.
unique_violation(rows, table) ==
    \/ Numbers(Range(rows)) \cap Numbers(table) # {}
    \/ \E j, k \in DOMAIN rows : j < k /\ rows[j].cert_number = rows[k].cert_number

Uploading(p) == procs[p].op = "upload" /\ procs[p].pc = "loop"

\* The rows process q has inserted in its open transaction.
OpenFlushed(q) == IF Uploading(q) THEN Range(procs[q].flushed) ELSE {}

\* The INSERT of a number that another open transaction has inserted waits
\* for that transaction to end.
WaitsFor(p, q) ==
    /\ p # q /\ Uploading(p)
    /\ Numbers(Range(procs[p].pending)) \cap Numbers(OpenFlushed(q)) # {}

\* What flushing the pending rows of p gives.
flush_outcome(p) ==
    IF unique_violation(procs[p].pending, records \cup Range(procs[p].flushed))
    THEN "duplicate"
    ELSE IF \E q \in Procs : WaitsFor(p, q) THEN "wait"
    ELSE "ok"

\* Two transactions wait for each other: the database ends one with an error.
Deadlocked(p) == \E q \in Procs : WaitsFor(p, q) /\ WaitsFor(q, p)

UploadInit ==
    /\ certificates = {}
    /\ certData = <<>>
    /\ records = {Record(1, s_abc, s_1, s_9, s_c1, s_x)}
    /\ alerts = <<>>
    /\ response = NoResponse
    /\ bulk = BulkIdle
    /\ last = [run |-> 0, cert_id |-> 0, cert_data |-> NoData, matches |-> <<>>,
               result |-> ErrorVerdict(<<>>),
               alerts |-> <<>>, committed |-> FALSE]
    /\ generated = <<>>
    /\ call = NoCall
    /\ procs = [p \in Procs |-> IdleProc]
    /\ dataRows = <<>>
    /\ autoflush \in BOOLEAN
    /\ now = 0

UploadUnchanged ==
    UNCHANGED <<certificates, certData, alerts, response, bulk, last, generated, call,
                dataRows, autoflush, now>>

\* bulk_upload_verified_records, lines 60 to 62, called with the records
\* batch; received is how many rows the request held.
upload_call(source, received, batch) ==
    [op |-> "upload", pc |-> "loop", source |-> source, received |-> received,
     batch |-> batch,
     i |-> 1, pending |-> <<>>, flushed |-> <<>>, session |-> "active",
     success_count |-> 0, error_count |-> 0, errors |-> <<>>, cause |-> "none"]

\* POST /verified-records/bulk
UploadBulk(p, batch) ==
    /\ procs[p].pc = "idle"
    /\ Len(batch) <= UPLOAD_LIMIT
    /\ procs' = [procs EXCEPT ![p] = upload_call("bulk", Len(batch), batch)]
    /\ UNCHANGED records /\ UploadUnchanged

\* POST /verified-records/csv and /json: upload_csv_records and
\* upload_json_records, which differ in how the file is read only, up to
\* their call of bulk_upload_verified_records.
UploadFileRows(p, rows) ==
    /\ procs[p].pc = "idle"
    /\ procs' = [procs EXCEPT ![p] = upload_call("file", Len(rows), parse_rows(rows))]
    /\ UNCHANGED records /\ UploadUnchanged

\* The file does not decode or is no CSV or JSON text: the outer except.
UploadFileUnreadable(p) ==
    /\ procs[p].pc = "idle"
    /\ procs' = [procs EXCEPT ![p] =
                    [upload_call("file", 0, <<>>) EXCEPT
                        !.pc = "done", !.error_count = 1,
                        !.errors = <<<<"processing error">>>>,
                        !.cause = "unreadable"]]
    /\ UNCHANGED records /\ UploadUnchanged

\* The session's transaction failed earlier and was not rolled back: the
\* query of line 67 raises, the except clause of line 89 counts the record.
UploadSessionInvalid(p) ==
    /\ Uploading(p) /\ procs[p].i <= Len(procs[p].batch)
    /\ procs[p].session = "inactive"
    /\ procs' = [procs EXCEPT
                    ![p].i = @ + 1,
                    ![p].error_count = @ + 1,
                    ![p].errors = Append(@, <<"Error processing record",
                                             procs[p].batch[procs[p].i].cert_number>>)]
    /\ UNCHANGED records /\ UploadUnchanged

\* The query of line 67 first flushes the row added by the pass before
\* (autoflush); the INSERT fails, the query raises and line 89 counts the
\* record at hand.
UploadFlushFails(p) ==
    /\ Uploading(p) /\ procs[p].i <= Len(procs[p].batch)
    /\ procs[p].session = "active"
    /\ autoflush /\ procs[p].pending # <<>>
    /\ flush_outcome(p) = "duplicate" \/ Deadlocked(p)
    /\ procs' = [procs EXCEPT
                    ![p].i = @ + 1,
                    ![p].session = "inactive",
                    ![p].pending = <<>>,
                    ![p].flushed = <<>>,
                    ![p].error_count = @ + 1,
                    ![p].errors = Append(@, <<"Error processing record",
                                             procs[p].batch[procs[p].i].cert_number>>)]
    /\ UNCHANGED records /\ UploadUnchanged

CanQuery(p) ==
    /\ Uploading(p) /\ procs[p].i <= Len(procs[p].batch)
    /\ procs[p].session = "active"
    /\ ~autoflush \/ procs[p].pending = <<>> \/ flush_outcome(p) = "ok"

\* What the session of p has inserted once the query has flushed.
flushed_by_query(p) ==
    IF autoflush THEN procs[p].flushed \o procs[p].pending ELSE procs[p].flushed
pending_after_query(p) == IF autoflush THEN <<>> ELSE procs[p].pending

\* self.db.query(VerifiedRecord).filter(cert_number == ...).first(): the
\* committed rows and the rows of the own transaction.
existing(p, cert_number) ==
    {r \in records \cup Range(flushed_by_query(p)) : r.cert_number = cert_number}

\* Lines 67 to 74: the number is found.
UploadDuplicate(p) ==
    /\ CanQuery(p)
    /\ existing(p, procs[p].batch[procs[p].i].cert_number) # {}
    /\ procs' = [procs EXCEPT
                    ![p].i = @ + 1,
                    ![p].flushed = flushed_by_query(p),
                    ![p].pending = pending_after_query(p),
                    ![p].error_count = @ + 1,
                    ![p].errors = Append(@, <<"already exists",
                                             procs[p].batch[procs[p].i].cert_number>>)]
    /\ UNCHANGED records /\ UploadUnchanged

\* Lines 67 to 87: the number is not found, the record is added.
UploadAdd(p) ==
    /\ CanQuery(p)
    /\ existing(p, procs[p].batch[procs[p].i].cert_number) = {}
    /\ procs' = [procs EXCEPT
                    ![p].i = @ + 1,
                    ![p].flushed = flushed_by_query(p),
                    ![p].pending = Append(pending_after_query(p),
                                          new_record(p, procs[p].i,
                                                     procs[p].batch[procs[p].i])),
                    ![p].success_count = @ + 1]
    /\ UNCHANGED records /\ UploadUnchanged

\* Lines 93 to 94 and 100 to 104: the commit goes through.
UploadCommit(p) ==
    /\ Uploading(p) /\ procs[p].i > Len(procs[p].batch)
    /\ procs[p].session = "active"
    /\ flush_outcome(p) = "ok"
    /\ records' = records \cup Range(procs[p].flushed \o procs[p].pending)
    /\ procs' = [procs EXCEPT ![p].pc = "done", ![p].pending = <<>>,
                              ![p].flushed = <<>>]
    /\ UploadUnchanged

\* A faulty except clause: the counters are left as they are.
commit_error_uncounted(own) ==
    [own EXCEPT !.errors = Append(@, <<"Database commit error">>)]

\* Lines 95 to 98.
on_commit_error(own) ==
    [own EXCEPT !.errors = Append(@, <<"Database commit error">>),
                !.error_count = @ + own.success_count,
                !.success_count = 0]

\* Why the commit of p raises: the session was invalid, an INSERT breaks
\* the unique constraint, the database ends the transaction, or something
\* outside the program fails (the connection).
commit_faults(p) ==
    IF procs[p].session = "inactive" THEN {"session"}
    ELSE IF flush_outcome(p) = "duplicate" THEN {"duplicate"}
    ELSE IF Deadlocked(p) THEN {"deadlock", "connection"}
    ELSE {"connection"}

UploadCommitFails(p) ==
    /\ Uploading(p) /\ procs[p].i > Len(procs[p].batch)
    /\ \E cause \in commit_faults(p) :
          procs' = [procs EXCEPT ![p] =
                       [on_commit_error(procs[p]) EXCEPT
                           !.pc = "done", !.pending = <<>>, !.flushed = <<>>,
                           !.session = "inactive", !.cause = cause]]
    /\ UNCHANGED records /\ UploadUnchanged

UploadNext ==
    \E p \in Procs :
        \/ \E batch \in BatchPool : UploadBulk(p, batch)
        \/ \E rows \in FilePool : UploadFileRows(p, rows)
        \/ UploadFileUnreadable(p)
        \/ UploadSessionInvalid(p)
        \/ UploadFlushFails(p)
        \/ UploadDuplicate(p)
        \/ UploadAdd(p)
        \/ UploadCommit(p)
        \/ UploadCommitFails(p)

UploadSpec == UploadInit /\ [][UploadNext]_vars

(***************************************************************************)
(* POST /extract-and-save/{certificate_id}  (api/v1/ocr.py), one call per  *)
(* process.  The clock counts the commits; extracted_at is its reading.    *)
(***************************************************************************)
ExtractPool == {Data(s_ab, s_1, s_9pct, s_c1), Data(s_a, s_1, None, None)}

\* A row of table certificate_data.
DataRow(cert_id, data, at) ==
    [cert_id |-> cert_id, student_name |-> data.student_name,
     roll_number |-> data.roll_number, marks |-> data.marks,
     cert_number |-> data.cert_number, extracted_at |-> at]

OcrInit ==
    /\ certificates = CertIds
    /\ certData = <<>>
    /\ records = {}
    /\ alerts = <<>>
    /\ response = NoResponse
    /\ bulk = BulkIdle
    /\ last = [run |-> 0, cert_id |-> 0, cert_data |-> NoData, matches |-> <<>>,
               result |-> ErrorVerdict(<<>>),
               alerts |-> <<>>, committed |-> FALSE]
    /\ generated = <<>>
    /\ call = NoCall
    /\ procs = [p \in Procs |-> IdleProc]
    /\ dataRows \in {<<>>, <<DataRow(1, Data(s_ab, s_1, s_9pct, s_c1), 0)>>}
    /\ autoflush = FALSE
    /\ now = 0

\* The OCR does not succeed: the HTTPException of line 108 is raised inside
\* the try and caught by except Exception, so the answer is 500.
OcrExtractFails(p, cert_id) ==
    /\ procs[p].pc = "idle"
    /\ procs' = [procs EXCEPT ![p] =
                    [op |-> "extract", pc |-> "done", cert_id |-> cert_id,
                     status |-> 500, detail |-> "OCR processing failed"]]
    /\ UNCHANGED <<db, response, bulk, last, generated, call, dataRows, autoflush, now>>

\* Lines 102 to 126: the extraction and the query for the row of the
\* certificate; found is the place of the row .first() gave, 0 for none.
OcrQuery(p, cert_id, data) ==
    /\ procs[p].pc = "idle"
    /\ \E found \in IF \E k \in 1..Len(dataRows) : dataRows[k].cert_id = cert_id
                    THEN {k \in 1..Len(dataRows) : dataRows[k].cert_id = cert_id}
                    ELSE {0} :
          procs' = [procs EXCEPT ![p] =
                       [op |-> "extract", pc |-> "queried", cert_id |-> cert_id,
                        data |-> data, found |-> found,
                        loaded |-> IF found = 0 THEN NoData ELSE dataRows[found],
                        queried_at |-> now]]
    /\ UNCHANGED <<db, response, bulk, last, generated, call, dataRows, autoflush, now>>

\* The UPDATE of the commit after lines 129 to 132: the session writes the
\* attributes whose new value differs from the value it loaded.
updated_row(row, loaded, data) ==
    [row EXCEPT
        !.student_name = IF data.student_name # loaded.student_name
                         THEN data.student_name ELSE @,
        !.roll_number = IF data.roll_number # loaded.roll_number
                        THEN data.roll_number ELSE @,
        !.marks = IF data.marks # loaded.marks THEN data.marks ELSE @,
        !.cert_number = IF data.cert_number # loaded.cert_number
                        THEN data.cert_number ELSE @]

\* Lines 128 to 136, a row was found: it is updated in place.
OcrUpdate(p) ==
    /\ procs[p].op = "extract" /\ procs[p].pc = "queried"
    /\ procs[p].found # 0
    /\ dataRows' = [dataRows EXCEPT ![procs[p].found] =
                       updated_row(@, procs[p].loaded, procs[p].data)]
    /\ now' = now + 1
    /\ procs' = [procs EXCEPT ![p] =
                    [op |-> "extract", pc |-> "done", cert_id |-> procs[p].cert_id,
                     status |-> 200, data |-> procs[p].data, found |-> procs[p].found,
                     queried_at |-> procs[p].queried_at, at |-> now + 1]]
    /\ UNCHANGED <<db, response, bulk, last, generated, call, autoflush>>

\* Lines 133 to 136, no row was found: db.add(cert_data) and the commit.
\* cert_id is a foreign key: the certificate has to exist.
OcrInsert(p) ==
    /\ procs[p].op = "extract" /\ procs[p].pc = "queried"
    /\ procs[p].found = 0
    /\ procs[p].cert_id \in certificates
    /\ dataRows' = Append(dataRows, DataRow(procs[p].cert_id, procs[p].data, now + 1))
    /\ now' = now + 1
    /\ procs' = [procs EXCEPT ![p] =
                    [op |-> "extract", pc |-> "done", cert_id |-> procs[p].cert_id,
                     status |-> 200, data |-> procs[p].data, found |-> 0,
                     queried_at |-> procs[p].queried_at, at |-> now + 1]]
    /\ UNCHANGED <<db, response, bulk, last, generated, call, autoflush>>

\* db.commit() raises (no such certificate, or the connection fails): 500.
OcrCommitFails(p) ==
    /\ procs[p].op = "extract" /\ procs[p].pc = "queried"
    /\ procs' = [procs EXCEPT ![p] =
                    [op |-> "extract", pc |-> "done", cert_id |-> procs[p].cert_id,
                     status |-> 500, detail |-> "commit"]]
    /\ UNCHANGED <<db, response, bulk, last, generated, call, dataRows, autoflush, now>>

OcrNext ==
    \E p \in Procs :
        \/ \E cert_id \in CertIds \cup UnknownIds : OcrExtractFails(p, cert_id)
        \/ \E cert_id \in CertIds \cup UnknownIds, data \in ExtractPool :
              OcrQuery(p, cert_id, data)
        \/ OcrUpdate(p)
        \/ OcrInsert(p)
        \/ OcrCommitFails(p)

OcrSpec == OcrInit /\ [][OcrNext]_vars

(***************************************************************************)
(* Alert management: api/v1/alerts.py and the resolve endpoint of          *)
(* api/v1/dashboard.py.  An alert's id is its position in table alerts;    *)
(* resolved_at 0 is None, and the clock gives datetime.now().  Requests    *)
(* are served one at a time; response describes the latest.                *)
(***************************************************************************)
MaxClock == 3              \* readings of the clock that change an alert
ALERT_BULK_LIMIT == 100

AlertIds == 1..(Len(alerts) + 1)

AlertAnswer(op, alert_id, code, detail) ==
    [op |-> op, alert_id |-> alert_id, status |-> code, detail |-> detail]

\* alert.resolved = True; alert.resolved_at = datetime.now()
resolve_row(row, at) == [row EXCEPT !.resolved = TRUE, !.resolved_at = at]

\* A faulty unresolve: the timestamp stays.
unresolve_row_keeping_time(row) == [row EXCEPT !.resolved = FALSE]

\* alert.resolved = False; alert.resolved_at = None
unresolve_row(row) == [row EXCEPT !.resolved = FALSE, !.resolved_at = 0]

AlertInit ==
    /\ certificates = CertIds
    /\ certData = [c \in CertIds |-> IF c = 1 THEN Data(s_ab, s_1, s_7, s_c1)
                                             ELSE Data(s_ab, s_1, s_9pct, s_c1)]
    /\ records = {Record(1, s_abc, s_1, s_9, s_c1, s_x)}
    /\ alerts = <<>>
    /\ response = NoResponse
    /\ bulk = BulkIdle
    /\ last = [run |-> 0, cert_id |-> 0, cert_data |-> NoData, matches |-> <<>>,
               result |-> ErrorVerdict(<<>>),
               alerts |-> <<>>, committed |-> FALSE]
    /\ generated = <<>>
    /\ call = NoCall
    /\ OthersIdle

AlertUnchanged == UNCHANGED <<certificates, certData, records, bulk, last, generated,
                              call, procs, dataRows, autoflush>>

\* POST /alerts/{alert_id}/resolve
resolve_alert(alert_id) ==
    /\ AlertUnchanged
    /\ IF alert_id \notin 1..Len(alerts)
       THEN /\ response' = AlertAnswer("resolve", alert_id, 404, "Alert not found")
            /\ UNCHANGED <<alerts, now>>
       ELSE IF alerts[alert_id].resolved
       THEN /\ response' = AlertAnswer("resolve", alert_id, 400,
                                       "Alert is already resolved")
            /\ UNCHANGED <<alerts, now>>
       ELSE /\ now < MaxClock
            /\ now' = now + 1
            /\ alerts' = [alerts EXCEPT ![alert_id] = resolve_row(@, now + 1)]
            /\ response' = AlertAnswer("resolve", alert_id, 200,
                                       "Alert resolved successfully")

\* POST /alerts/{alert_id}/unresolve
unresolve_alert(alert_id) ==
    /\ AlertUnchanged
    /\ IF alert_id \notin 1..Len(alerts)
       THEN /\ response' = AlertAnswer("unresolve", alert_id, 404, "Alert not found")
            /\ UNCHANGED <<alerts, now>>
       ELSE IF ~alerts[alert_id].resolved
       THEN /\ response' = AlertAnswer("unresolve", alert_id, 400,
                                       "Alert is not resolved")
            /\ UNCHANGED <<alerts, now>>
       ELSE /\ alerts' = [alerts EXCEPT ![alert_id] = unresolve_row(@)]
            /\ response' = AlertAnswer("unresolve", alert_id, 200,
                                       "Alert unresolved successfully")
            /\ UNCHANGED now

\* POST /alerts/bulk-resolve.  Every alert of the list that is not resolved
\* is resolved; the others are left alone.
bulk_resolve_alerts(alert_ids) ==
    /\ AlertUnchanged
    /\ IF Cardinality(alert_ids) > ALERT_BULK_LIMIT
       THEN /\ response' = AlertAnswer("bulk_resolve", 0, 400, "Too many alerts")
            /\ UNCHANGED <<alerts, now>>
       ELSE /\ now < MaxClock
            /\ now' = now + 1
            /\ alerts' = [k \in 1..Len(alerts) |->
                             IF k \in alert_ids /\ ~alerts[k].resolved
                             THEN resolve_row(alerts[k], now + 1)
                             ELSE alerts[k]]
            /\ response' =
                  [op |-> "bulk_resolve", alert_id |-> 0, status |-> 200,
                   detail |-> "Bulk resolve completed",
                   total_requested |-> Cardinality(alert_ids),
                   resolved |-> Cardinality({k \in alert_ids \cap (1..Len(alerts)) :
                                                ~alerts[k].resolved}),
                   already_resolved |->
                       Cardinality(alert_ids) -
                       Cardinality({k \in alert_ids \cap (1..Len(alerts)) :
                                       ~alerts[k].resolved})]

\* POST /dashboard/alerts/{alert_id}/resolve: no look at alert.resolved.
dashboard_resolve_alert(alert_id) ==
    /\ AlertUnchanged
    /\ IF alert_id \notin 1..Len(alerts)
       THEN /\ response' = AlertAnswer("dashboard_resolve", alert_id, 404,
                                       "Alert not found")
            /\ UNCHANGED <<alerts, now>>
       ELSE /\ now < MaxClock
            /\ now' = now + 1
            /\ alerts' = [alerts EXCEPT ![alert_id] = resolve_row(@, now + 1)]
            /\ response' = AlertAnswer("dashboard_resolve", alert_id, 200,
                                       "Alert resolved successfully")

\* db.commit() raises in one of the four handlers: 500, nothing is written.
AlertCommitFails(op, alert_id) ==
    /\ alert_id \in 1..Len(alerts)
    /\ op = "resolve" => ~alerts[alert_id].resolved
    /\ op = "unresolve" => alerts[alert_id].resolved
    /\ response' = AlertAnswer(op, alert_id, 500, "Error")
    /\ UNCHANGED <<alerts, now>>
    /\ AlertUnchanged

AlertNext ==
    \/ VerifyCertificate
    \/ \E alert_id \in AlertIds : resolve_alert(alert_id)
    \/ \E alert_id \in AlertIds : unresolve_alert(alert_id)
    \/ \E alert_ids \in {S \in SUBSET AlertIds : Cardinality(S) <= MaxBulkIds} :
          bulk_resolve_alerts(alert_ids)
    \/ \E alert_id \in AlertIds : dashboard_resolve_alert(alert_id)
    \/ \E op \in {"resolve", "unresolve", "bulk_resolve", "dashboard_resolve"},
          alert_id \in AlertIds : AlertCommitFails(op, alert_id)

AlertSpec == AlertInit /\ [][AlertNext]_vars

(***************************************************************************)
(* Properties                                                              *)
(***************************************************************************)
\* The greatest _calculate_match_score over a candidate list, 0.0 for none.
RECURSIVE MaxScore(_, _)
MaxScore(cert_data, matches) ==
    IF matches = <<>> THEN FZero
    ELSE LET rest == MaxScore(cert_data, Tail(matches))
             score == match_score(cert_data, Head(matches))[1]
         IN  IF FLess(rest, score) THEN score ELSE rest

\* The places of the candidates that reach the greatest score.
BestPlaces(cert_data, matches) ==
    {k \in 1..Len(matches) :
        match_score(cert_data, matches[k])[1] = MaxScore(cert_data, matches)}

Min(S) == CHOOSE k \in S : \A j \in S : k <= j

\* C1: the confidence score of a verdict is the greatest Match Scorer score
\* over the candidates considered, and 0.0 when there is no candidate or no
\* candidate has a comparable field.
C1_ConfidenceIsMaxScore ==
    last.run > 0 =>
        /\ last.result.confidence_score = MaxScore(last.cert_data, last.matches)
        /\ last.matches = <<>> => last.result.confidence_score = FZero
        /\ (\A k \in 1..Len(last.matches) :
                match_score(last.cert_data, last.matches[k])[2]
                    = <<<<"No comparable fields found">>>>)
              => last.result.confidence_score = FZero

\* C1: a run over two candidates or more where the first candidate is not the
\* best one.
C1_LaterCandidateIsBest ==
    /\ last.run > 0 /\ Len(last.matches) >= 2
    /\ FLess(match_score(last.cert_data, last.matches[1])[1],
             last.result.confidence_score)

\* C2: with a non-empty candidate list, the verdict carries the triple of one
\* candidate: the matched record is a candidate, its Match Scorer score is the
\* confidence score and its Match Scorer mismatch list is the verdict's, also
\* when every candidate scores 0.
C2_VerdictCarriesBestTriple ==
    (last.run > 0 /\ last.matches # <<>>) =>
        \E k \in 1..Len(last.matches) :
            /\ last.result.matched_record = last.matches[k].id
            /\ last.result.confidence_score
                   = match_score(last.cert_data, last.matches[k])[1]
            /\ last.result.mismatches
                   = match_score(last.cert_data, last.matches[k])[2]

\* C3: when several candidates share the best score, the matched record is
\* the first of them in the candidate list.
C3_TieKeepsFirstSeen ==
    (last.run > 0 /\ last.matches # <<>>) =>
        last.result.matched_record
            = last.matches[Min(BestPlaces(last.cert_data, last.matches))].id

\* C4: a run with an empty candidate list returns verified = false, score
\* 0.0, no matched record and the one mismatch 'No matching verified records
\* found'.
C4_EmptyCandidateList ==
    (last.run > 0 /\ last.matches = <<>>) =>
        /\ last.result.is_verified = FALSE
        /\ last.result.confidence_score = FZero
        /\ last.result.matched_record = NoRecord
        /\ last.result.mismatches = <<<<"No matching verified records found">>>>

\* C4: a single verification answered 200 after the query returned no record.
C4_EmptyListAnswered ==
    /\ last.run > 0 /\ last.matches = <<>>
    /\ response.status = 200 /\ response.cert_id = last.cert_id

\* C5: with a non-empty candidate list the verdict is verified exactly when
\* the best score is not below the threshold 0.8; a best score equal to the
\* threshold is verified.
C5_VerifiedIffAtLeastThreshold ==
    (last.run > 0 /\ last.matches # <<>>) =>
        /\ last.result.is_verified
               <=> ~FLess(MaxScore(last.cert_data, last.matches), F_0_8)
        /\ MaxScore(last.cert_data, last.matches) = F_0_8 => last.result.is_verified

\* C5: a run whose best score is the threshold itself, and is verified.
C5_ScoreEqualToThreshold ==
    /\ last.run > 0 /\ last.matches # <<>>
    /\ last.result.confidence_score = F_0_8
    /\ last.result.is_verified

\* C2, as far as the code goes: when some candidate scores above 0.0, the
\* verdict carries the record, score and mismatch list of one candidate.
C2_PositiveBestCarriesTriple ==
    (last.run > 0 /\ FLess(FZero, MaxScore(last.cert_data, last.matches))) =>
        \E k \in 1..Len(last.matches) :
            /\ last.result.matched_record = last.matches[k].id
            /\ last.result.confidence_score
                   = match_score(last.cert_data, last.matches[k])[1]
            /\ last.result.mismatches
                   = match_score(last.cert_data, last.matches[k])[2]

\* C2: a run whose only candidates score 0.0 with mismatches of their own.
C2_EveryCandidateScoresZero ==
    /\ last.run > 0 /\ last.matches # <<>>
    /\ MaxScore(last.cert_data, last.matches) = FZero
    /\ last.result.matched_record = NoRecord
    /\ last.result.mismatches = <<>>

\* C3, as far as the code goes: when some candidate scores above 0.0, the
\* matched record is the first candidate of the list that has the best score.
C3_PositiveTieKeepsFirstSeen ==
    (last.run > 0 /\ FLess(FZero, MaxScore(last.cert_data, last.matches))) =>
        last.result.matched_record
            = last.matches[Min(BestPlaces(last.cert_data, last.matches))].id

\* C3: two candidates share a best score above 0.0 and the first of the list
\* is not the one with the smaller id.
C3_TieAboveZero ==
    /\ last.run > 0
    /\ Cardinality(BestPlaces(last.cert_data, last.matches)) >= 2
    /\ FLess(FZero, MaxScore(last.cert_data, last.matches))
    /\ last.matches[1].id > last.matches[2].id
    /\ last.result.matched_record = last.matches[1].id

\* How many alerts of a list satisfy P.
Count(list, P(_)) == Cardinality({k \in 1..Len(list) : P(list[k])})

IsFailedAlert(a) ==
    /\ a.level = "critical"
    /\ a.reason = <<"Certificate verification failed - no matching verified records">>
IsLowConfidenceAlert(a) ==
    a.level = "warning" /\ a.reason[1] = "Low confidence score"
IsMismatchAlert(a) ==
    a.level = "critical" /\ a.reason[1] = "Multiple mismatches detected"
Indicator(b) == IF b THEN 1 ELSE 0

\* C6: the alerts of a run are those of three rules evaluated one by one and
\* no others: a critical alert iff the verdict is not verified, a warning iff
\* the score is below 0.5, a critical alert iff there are more than 2
\* mismatches; 2 mismatches and a score of 0.5 trigger nothing.
C6_ThreeIndependentRules ==
    last.run > 0 =>
        /\ Count(last.alerts, IsFailedAlert) = Indicator(~last.result.is_verified)
        /\ Count(last.alerts, IsLowConfidenceAlert)
               = Indicator(FLess(last.result.confidence_score, F_0_5))
        /\ Count(last.alerts, IsMismatchAlert)
               = Indicator(Len(last.result.mismatches) > 2)
        /\ Len(last.alerts) = Count(last.alerts, IsFailedAlert)
               + Count(last.alerts, IsLowConfidenceAlert)
               + Count(last.alerts, IsMismatchAlert)
        /\ \A k \in 1..Len(last.alerts) : last.alerts[k].cert_id = last.cert_id
        /\ (last.result.confidence_score = F_0_5 /\ last.result.is_verified
               /\ Len(last.result.mismatches) <= 2) => last.alerts = <<>>

\* C6: a verdict with a score below 0.5 and exactly two mismatches, whose
\* alerts are one critical and one warning.
C6_LowScoreTwoMismatches ==
    /\ last.run > 0
    /\ FLess(FZero, last.result.confidence_score)
    /\ FLess(last.result.confidence_score, F_0_5)
    /\ Len(last.result.mismatches) = 2
    /\ Len(last.alerts) = 2
    /\ last.alerts[1].level = "critical" /\ last.alerts[2].level = "warning"

\* The rows of table alerts that run wrote.
RowsOf(run) == {k \in 1..Len(alerts) : alerts[k].run = run}

\* C7: of the alerts a run added to its session, the table holds all or
\* none, also after a failed commit and after later passes of a bulk request
\* on the same session.
C7_AlertsAllOrNothing ==
    /\ \A run \in 1..Len(generated) :
           Cardinality(RowsOf(run)) \in {0, generated[run]}
    /\ \A k \in 1..Len(alerts) : alerts[k].run \in 1..Len(generated)
    /\ last.run > 0 =>
           Cardinality(RowsOf(last.run))
               = (IF last.committed THEN Len(last.alerts) ELSE 0)

\* C7: a bulk request went on after a commit failed on a run that had added
\* two alerts or more; none of them is in the table.
C7_FailedCommitThenLaterPass ==
    /\ bulk.pc = "done" /\ bulk.session = "inactive"
    /\ bulk.ids[Len(bulk.ids)] \notin bulk.faults
    /\ \E run \in 1..Len(generated) :
           generated[run] >= 2 /\ RowsOf(run) = {}

\* The verdicts verify_certificate can return for cert_id when a bulk request
\* holds this id alone.
AloneVerdicts(cert_id) ==
    IF cert_id \notin certificates
    THEN {ErrorVerdict(<<"Certificate not found">>)}
    ELSE {Verdict(calculate_verification_result(cert_data_of(cert_id), matches),
                  create_alerts(cert_id,
                      calculate_verification_result(cert_data_of(cert_id), matches))) :
             matches \in Candidates(cert_id, bulk_request(cert_data_of(cert_id)))}

\* C8: in a bulk request, every id other than the one whose verification
\* failed has the verdict it would have alone, and the failing id has
\* verified = false, score 0.0 and a diagnostic mismatch.
C8_FailureLeavesOtherIds ==
    bulk.pc = "done" =>
        \A cert_id \in DOMAIN bulk.results :
            IF cert_id \in bulk.faults
            THEN bulk.results[cert_id].is_verified = FALSE
                 /\ bulk.results[cert_id].confidence_score = FZero
                 /\ Len(bulk.results[cert_id].mismatches) = 1
            ELSE bulk.results[cert_id] \in AloneVerdicts(cert_id)

\* C8, as far as the code goes: when no commit fails in a bulk request, an
\* unknown id gets 'Certificate not found' and every id has the verdict it
\* would have alone.
C8_NotFoundLeavesOtherIds ==
    (bulk.pc = "done" /\ bulk.faults = {}) =>
        \A cert_id \in DOMAIN bulk.results :
            bulk.results[cert_id] \in AloneVerdicts(cert_id)

\* C8: a returned request that held an unknown id before a known one.
C8_UnknownIdThenKnownId ==
    /\ bulk.pc = "done" /\ bulk.faults = {} /\ Len(bulk.ids) >= 2
    /\ bulk.ids[1] \in UnknownIds
    /\ bulk.ids[Len(bulk.ids)] \in certificates

\* C9 as stated: the mapping returned has as many entries as the input list
\* has ids.
C9_OneEntryPerListedId ==
    bulk.pc = "done" => Cardinality(DOMAIN bulk.results) = Len(bulk.ids)

\* What the loop of a bulk request has stored: an entry for each id handled
\* so far and, on return, status 200 with one entry per distinct id.
BulkEntries ==
    /\ bulk.pc = "loop" =>
           /\ bulk.i \in 1..(Len(bulk.ids) + 1)
           /\ DOMAIN bulk.results = {bulk.ids[k] : k \in 1..(bulk.i - 1)}
    /\ bulk.pc = "done" =>
           /\ bulk.status = 200
           /\ DOMAIN bulk.results = Range(bulk.ids)
           /\ \A cert_id \in DOMAIN bulk.results :
                  bulk.results[cert_id].is_verified \in BOOLEAN

\* C9: a bulk request never fails wholesale: whatever the ids (known,
\* unknown, repeated, failing), every pass stores an entry under the id it
\* handled, the loop reaches its return, and the request returns 200 with one
\* entry per distinct id of the list.
C9_OneEntryPerDistinctId ==
    []BulkEntries /\ ((bulk.pc = "loop") ~> (bulk.pc = "done"))

\* C9: a returned request of three distinct ids, one of them unknown and one
\* whose commit failed, with three entries.
C9_ThreeIdsThreeEntries ==
    /\ bulk.pc = "done" /\ Len(bulk.ids) = 3
    /\ Range(bulk.ids) = CertIds \cup UnknownIds
    /\ bulk.faults # {}
    /\ Cardinality(DOMAIN bulk.results) = 3

\* C10: a verification of an id that is no certificate is answered 404 with
\* no verdict, and the step leaves certificates, extracted data, records and
\* alerts as they were.
C10_UnknownIdNotFound ==
    [][(response'.status # 0 /\ response'.cert_id \notin certificates)
          => (/\ response'.status = 404
              /\ response'.verdict = NoVerdict
              /\ UNCHANGED db)]_vars

\* C10: the endpoint has answered a request for an unknown id.
C10_AnsweredUnknownId ==
    response.status = 404 /\ response.cert_id \in UnknownIds

(***************************************************************************)
(* Properties of the functions called on their own (CallSpec)              *)
(***************************************************************************)
NoCallerValues == Request(None, None, None, None)
NothingExtracted(cert_data) ==
    \/ ~cert_data.row
    \/ /\ cert_data.student_name = None /\ cert_data.roll_number = None
       /\ cert_data.marks = None /\ cert_data.cert_number = None

IsEmptyCandidateVerdict(result) ==
    /\ ~result.is_verified
    /\ result.confidence_score = FZero
    /\ result.matched_record = NoRecord
    /\ result.mismatches = <<<<"No matching verified records found">>>>

\* C11: _find_matching_records returns the empty list for empty criteria,
\* whatever rows the table holds; so verify, called without caller values on
\* a certificate with no extracted data or only empty extracted fields,
\* returns the empty-candidate verdict and matches no record.
C11_EmptyCriteriaNoCandidates ==
    /\ (call.op = "find" /\ call.returned /\ CriteriaEmpty(call.criteria))
           => call.value = <<>>
    /\ (call.op = "verify" /\ call.request = NoCallerValues
           /\ NothingExtracted(call.cert_data))
           => \A k \in 1..Len(call.results) :
                  /\ call.results[k].matches = <<>>
                  /\ IsEmptyCandidateVerdict(call.results[k].result)

\* verify has run without caller values on an all-empty extraction, with
\* rows in the table.
C11_NothingToSearchFor ==
    /\ call.op = "verify" /\ call.request = NoCallerValues
    /\ call.cert_data = Data(None, None, None, None)
    /\ Cardinality(call.table) > QUERY_LIMIT
    /\ Len(call.results) > 0

\* value occurs in column as a substring, letter case ignored.
contains_ci(column, value) ==
    \E i \in 0..(Len(column) - Len(value)) :
        lower(SubSeq(column, i + 1, i + Len(value))) = lower(value)

\* rec satisfies every key the criteria supply.
satisfies(criteria, rec) ==
    /\ criteria.student_name # None =>
           contains_ci(rec.student_name, criteria.student_name)
    /\ criteria.roll_number # None =>
           contains_ci(rec.roll_number, criteria.roll_number)
    /\ criteria.cert_number # None => rec.cert_number = criteria.cert_number
    /\ criteria.issuer # None => contains_ci(rec.issuer, criteria.issuer)

HasWildcard(value) == \E i \in 1..Len(value) : value[i] \in {"%", "_"}
PlainCriteria(criteria) ==
    /\ ~HasWildcard(criteria.student_name) /\ ~HasWildcard(criteria.roll_number)
    /\ ~HasWildcard(criteria.issuer)

\* C12: for non-empty criteria _find_matching_records returns at most 10
\* rows of the table, and every row it returns satisfies all the supplied
\* keys at once: student name, roll number and issuer contain the value as
\* a substring, letter case ignored, and the certificate number is equal.
C12_CandidatesSatisfyCriteria ==
    (call.op = "find" /\ call.returned /\ ~CriteriaEmpty(call.criteria)) =>
        /\ Len(call.value) <= QUERY_LIMIT
        /\ \A k \in 1..Len(call.value) :
               /\ call.value[k] \in call.table
               /\ satisfies(call.criteria, call.value[k])

\* C12, for criteria whose values hold neither % nor _: at most 10 rows,
\* each of which satisfies every supplied key.
C12_PlainCriteriaSatisfied ==
    (call.op = "find" /\ call.returned /\ ~CriteriaEmpty(call.criteria)
        /\ PlainCriteria(call.criteria)) =>
        /\ Len(call.value) <= QUERY_LIMIT
        /\ \A k \in 1..Len(call.value) :
               /\ call.value[k] \in call.table
               /\ satisfies(call.criteria, call.value[k])

\* Two keys are supplied, more than 10 rows satisfy both and 10 came back.
C12_LimitReachedOnTwoKeys ==
    /\ call.op = "find" /\ call.returned
    /\ PlainCriteria(call.criteria)
    /\ call.criteria.student_name # None /\ call.criteria.issuer # None
    /\ Cardinality({rec \in call.table : satisfies(call.criteria, rec)}) > QUERY_LIMIT
    /\ Len(call.value) = QUERY_LIMIT

\* C13: the criteria hold, for student name, roll number and certificate
\* number, the caller's value when it is non-empty and the extracted value
\* otherwise; the issuer comes from the caller alone; a field whose value
\* is empty or missing is not in the criteria.
C13_CallerValueElseExtracted ==
    (call.op = "criteria" /\ call.returned) =>
        /\ \A field \in {"student_name", "roll_number", "cert_number"} :
               call.value[field] =
                   IF call.request[field] # None THEN call.request[field]
                   ELSE IF call.cert_data.row THEN call.cert_data[field] ELSE None
        /\ call.value.issuer = call.request.issuer

\* The caller's name has won over a different extracted one, the roll
\* number came from the extraction and no issuer was given.
C13_CallerWinsExtractedFillsIn ==
    /\ call.op = "criteria" /\ call.returned
    /\ call.request.student_name # None /\ call.cert_data.student_name # None
    /\ call.request.student_name # call.cert_data.student_name
    /\ call.request.roll_number = None /\ call.value.roll_number # None
    /\ call.value.issuer = None

Fields == {"student_name", "roll_number", "cert_number", "marks"}

\* The fields that are non-empty on both sides.
Shared(cert_data, verified_record) ==
    {field \in Fields :
        cert_data.row /\ cert_data[field] # None /\ verified_record[field] # None}

\* C14: for every pair that shares no field, a certificate without any
\* extracted data included, _calculate_match_score returns 0.0 and the single
\* message 'No comparable fields found'.
C14_NoSharedFieldOneMessage ==
    (call.op = "score" /\ call.returned
        /\ Shared(call.cert_data, call.verified_record) = {}) =>
        call.value = <<FZero, <<<<"No comparable fields found">>>>>>

\* C14, amended: for every pair that shares no field the score is 0.0 and
\* there is a single message, 'No comparable fields found' when the
\* certificate has extracted data and 'No certificate data available' when
\* it has none.
C14_NoSharedFieldScoresZero ==
    (call.op = "score" /\ call.returned
        /\ Shared(call.cert_data, call.verified_record) = {}) =>
        call.value = <<FZero, <<<<IF call.cert_data.row
                                  THEN "No comparable fields found"
                                  ELSE "No certificate data available">>>>>>

\* Both sides have a field, but not the same one, and the pair was scored.
C14_DisjointFieldsScored ==
    /\ call.op = "score" /\ call.returned
    /\ call.cert_data.row /\ call.cert_data.student_name # None
    /\ call.verified_record.student_name = None
    /\ call.verified_record.roll_number # None
    /\ Shared(call.cert_data, call.verified_record) = {}

InUnitInterval(x) == IsFloat(x) /\ FGeq(x, FZero) /\ FGeq(F_1_0, x)

\* C15: the score of _calculate_match_score lies in [0.0, 1.0] whatever
\* fields are present on either side, and so does the confidence score of
\* every verdict.
C15_ScoreInUnitInterval ==
    /\ (call.op = "score" /\ call.returned) => InUnitInterval(call.value[1])
    /\ call.op = "verify" =>
           \A k \in 1..Len(call.results) :
               InUnitInterval(call.results[k].result.confidence_score)

\* All four fields were compared and the score is strictly inside (0, 1).
C15_FourFieldsPartialScore ==
    /\ call.op = "score" /\ call.returned
    /\ Shared(call.cert_data, call.verified_record) = Fields
    /\ FLess(FZero, call.value[1]) /\ FLess(call.value[1], F_1_0)

\* At least one field is present on both sides and every such field holds
\* the same value on both.
Identical(cert_data, verified_record) ==
    /\ Shared(cert_data, verified_record) # {}
    /\ \A field \in Shared(cert_data, verified_record) :
           cert_data[field] = verified_record[field]

\* C16: when every field present on both sides is identical, for any
\* non-empty set of such fields, _calculate_match_score returns exactly 1.0
\* and no mismatch, and the verdict over a candidate list that holds the
\* record is verified.
C16_IdenticalFieldsScoreOne ==
    /\ (call.op = "score" /\ call.returned
           /\ Identical(call.cert_data, call.verified_record)) =>
           /\ call.value = <<F_1_0, <<>>>>
           /\ calculate_verification_result(call.cert_data, <<call.verified_record>>)
                  = [is_verified |-> TRUE, confidence_score |-> F_1_0,
                     matched_record |-> call.verified_record.id, mismatches |-> <<>>]
    /\ call.op = "verify" =>
           \A k \in 1..Len(call.results) :
               (\E i \in 1..Len(call.results[k].matches) :
                    Identical(call.cert_data, call.results[k].matches[i])) =>
                   /\ call.results[k].result.is_verified
                   /\ call.results[k].result.confidence_score = F_1_0
                   /\ call.results[k].result.mismatches = <<>>

\* All four fields are present and identical on both sides, and scored.
C16_FourIdenticalFieldsScored ==
    /\ call.op = "score" /\ call.returned
    /\ Shared(call.cert_data, call.verified_record) = Fields
    /\ Identical(call.cert_data, call.verified_record)

\* What a field adds to the score: nothing when it is not shared or fails
\* its test.
Contribution(field, cert_data, verified_record) ==
    IF field \notin Shared(cert_data, verified_record) THEN FZero
    ELSE IF field = "student_name"
         THEN IF FGeq(calculate_similarity(cert_data[field], verified_record[field]),
                      NAME_THRESHOLD)
              THEN calculate_similarity(cert_data[field], verified_record[field])
              ELSE FZero
    ELSE IF field = "marks"
         THEN IF FGeq(calculate_similarity(cert_data[field], verified_record[field]),
                      MARKS_THRESHOLD)
              THEN FHalf(calculate_similarity(cert_data[field], verified_record[field]))
              ELSE FZero
    ELSE IF lower(cert_data[field]) = lower(verified_record[field]) THEN F_1_0
         ELSE FZero

\* The weight of a field, in halves: 1.0 for all but marks, 0.5 for marks.
WeightHalves(field) == IF field = "marks" THEN 1 ELSE 2
TotalWeightHalves(cert_data, verified_record) ==
    LET S == Shared(cert_data, verified_record)
    IN  (IF "student_name" \in S THEN WeightHalves("student_name") ELSE 0)
      + (IF "roll_number" \in S THEN WeightHalves("roll_number") ELSE 0)
      + (IF "cert_number" \in S THEN WeightHalves("cert_number") ELSE 0)
      + (IF "marks" \in S THEN WeightHalves("marks") ELSE 0)

\* C17: with at least one comparable field the score is the accumulated
\* score divided by the total weight, where name, roll number and
\* certificate number weigh 1.0 and marks 0.5, and passing marks add their
\* similarity times 0.5.
C17_WeightedAverage ==
    (call.op = "score" /\ call.returned
        /\ Shared(call.cert_data, call.verified_record) # {}) =>
        call.value[1] =
            FDivHalves(
                FAdd(FAdd(FAdd(Contribution("student_name", call.cert_data,
                                            call.verified_record),
                               Contribution("roll_number", call.cert_data,
                                            call.verified_record)),
                          Contribution("cert_number", call.cert_data,
                                       call.verified_record)),
                     Contribution("marks", call.cert_data, call.verified_record)),
                TotalWeightHalves(call.cert_data, call.verified_record))

\* All four fields were compared and the marks passed with a similarity
\* below 1.0.
C17_PartialMarksCounted ==
    /\ call.op = "score" /\ call.returned
    /\ Shared(call.cert_data, call.verified_record) = Fields
    /\ FGeq(calculate_similarity(call.cert_data.marks, call.verified_record.marks),
            MARKS_THRESHOLD)
    /\ FLess(calculate_similarity(call.cert_data.marks, call.verified_record.marks),
             F_1_0)

\* Roll number and certificate number match, marks are not comparable and
\* the names are compared with a similarity below 0.8.
OnlyNameFails(cert_data, verified_record) ==
    /\ Shared(cert_data, verified_record)
           = {"student_name", "roll_number", "cert_number"}
    /\ lower(cert_data.roll_number) = lower(verified_record.roll_number)
    /\ lower(cert_data.cert_number) = lower(verified_record.cert_number)
    /\ FLess(calculate_similarity(cert_data.student_name,
                                  verified_record.student_name), NAME_THRESHOLD)

NameMismatch(cert_data, verified_record) ==
    <<"Student name mismatch", cert_data.student_name, verified_record.student_name>>

\* C18: when roll number and certificate number match, marks are not
\* comparable and the name similarity is below 0.8, the scorer records a
\* name mismatch and returns (name_sim + 2.0) / 3.0, and the verdict is
\* verified exactly when that score reaches the threshold.
C18_NameSimilarityInScore ==
    (call.op = "score" /\ call.returned
        /\ OnlyNameFails(call.cert_data, call.verified_record)) =>
        /\ call.value[2] = <<NameMismatch(call.cert_data, call.verified_record)>>
        /\ call.value[1] =
               FDivHalves(FAdd(calculate_similarity(call.cert_data.student_name,
                                                    call.verified_record.student_name),
                               FromNat(2)), 6)
        /\ calculate_verification_result(call.cert_data, <<call.verified_record>>)
               .is_verified = is_verified_at(call.value[1])

\* C18, amended: in that case the scorer records a name mismatch and returns
\* 2.0 / 3.0, the failing name adding nothing, and the verdict is verified
\* exactly when that score reaches the threshold, which 2.0 / 3.0 does not.
C18_FailingNameAddsNothing ==
    (call.op = "score" /\ call.returned
        /\ OnlyNameFails(call.cert_data, call.verified_record)) =>
        /\ call.value[2] = <<NameMismatch(call.cert_data, call.verified_record)>>
        /\ call.value[1] = FRatio(2, 3)
        /\ calculate_verification_result(call.cert_data, <<call.verified_record>>)
               .is_verified = is_verified_at(call.value[1])
        /\ ~is_verified_at(call.value[1])

\* Such a pair was scored, with a name similarity above 0.
C18_SimilarNameBelowThreshold ==
    /\ call.op = "score" /\ call.returned
    /\ OnlyNameFails(call.cert_data, call.verified_record)
    /\ FLess(FZero, calculate_similarity(call.cert_data.student_name,
                                         call.verified_record.student_name))

\* The rows of the table the WHERE clause of the call selects.
HitsOf(c) ==
    {rec \in c.table :
        record_matches(build_verification_criteria(c.request, c.cert_data), rec)}

\* C19: for a fixed table, extraction and request, two runs of verify
\* return the same verified flag, confidence, matched record and
\* mismatches, in whatever order the store returns the matching rows and
\* whichever 10 it returns when more than 10 match.
C19_RunsAgree ==
    call.op = "verify" =>
        \A j, k \in 1..Len(call.results) :
            call.results[j].result = call.results[k].result

\* C19, as far as it holds: when at most 10 rows match, two runs return the
\* same verified flag and the same confidence.
C19_RunsAgreeOnConfidence ==
    (call.op = "verify" /\ Cardinality(HitsOf(call)) <= QUERY_LIMIT) =>
        \A j, k \in 1..Len(call.results) :
            /\ call.results[j].result.is_verified = call.results[k].result.is_verified
            /\ call.results[j].result.confidence_score
                   = call.results[k].result.confidence_score

\* Two runs on the same input got the same rows in different orders.
C19_TwoRunsTwoOrders ==
    /\ call.op = "verify" /\ Len(call.results) = 2
    /\ Cardinality(HitsOf(call)) <= QUERY_LIMIT
    /\ call.results[1].matches # call.results[2].matches
    /\ call.results[1].result.matched_record # NoRecord

\* C27: with the threshold 0.8, a score of at least 0.8 is not below 0.5
\* and comes with at most 2 mismatches, and a verified verdict creates no
\* alert.
C27_VerifiedCreatesNoAlert ==
    /\ (call.op = "score" /\ call.returned /\ FGeq(call.value[1], F_0_8)) =>
           /\ ~FLess(call.value[1], LOW_CONFIDENCE)
           /\ Len(call.value[2]) <= MISMATCH_LIMIT
    /\ call.op = "verify" =>
           \A k \in 1..Len(call.results) :
               call.results[k].result.is_verified =>
                   /\ ~FLess(call.results[k].result.confidence_score, LOW_CONFIDENCE)
                   /\ Len(call.results[k].result.mismatches) <= MISMATCH_LIMIT
                   /\ call.results[k].alerts = <<>>

\* C27: a pair was scored at least 0.8 although one of its fields
\* mismatches.
C27_HighScoreWithMismatch ==
    /\ call.op = "score" /\ call.returned
    /\ FGeq(call.value[1], F_0_8)
    /\ Len(call.value[2]) = 1

(***************************************************************************)
(* Properties of the endpoints (Spec), continued                           *)
(***************************************************************************)
\* C20: verification only adds alerts: no step of verify or bulk_verify
\* changes a row of verified_records, certificates or certificate_data, and
\* every alert that is in the table stays there unchanged; scoring, which
\* is part of these steps, changes nothing.
C20_OnlyAlertsAdded ==
    [][/\ records' = records
       /\ certificates' = certificates
       /\ certData' = certData
       /\ Len(alerts') >= Len(alerts)
       /\ \A k \in 1..Len(alerts) : alerts'[k] = alerts[k]]_vars

\* The table holds alerts of two runs: the second run scored candidates and
\* added alerts after those of the first.
C20_SecondRunAddedAlerts ==
    /\ last.run = 2 /\ last.matches # <<>> /\ last.committed
    /\ \E i, j \in 1..Len(alerts) : alerts[i].run = 1 /\ alerts[j].run = 2

SameAlert(a, b) ==
    a.cert_id = b.cert_id /\ a.reason = b.reason /\ a.level = b.level

(***************************************************************************)
(* Bulk verification against single verification (Spec)                    *)
(***************************************************************************)
\* The verdicts POST /certificate/{cert_id} can return for a request that
\* supplies no value, with the alerts it then creates.
SingleVerdicts(cert_id) ==
    {Verdict(calculate_verification_result(cert_data_of(cert_id), matches),
             create_alerts(cert_id,
                 calculate_verification_result(cert_data_of(cert_id), matches))) :
        matches \in Candidates(cert_id, NoCallerValues)}

\* C22: the verdict bulk_verify_certificates stores under the id of an
\* existing certificate is a verdict verify_certificate returns for that
\* certificate when the caller supplies no criteria, with the same alerts
\* (ids whose own commit failed aside: there verify_certificate returns
\* nothing).
C22_BulkEqualsSingle ==
    \A cert_id \in (DOMAIN bulk.results \cap certificates) \ bulk.faults :
        bulk.results[cert_id] \in SingleVerdicts(cert_id)

\* C22, as far as the code goes: as long as no commit has failed in the bulk
\* request, every stored verdict of an existing certificate is one that
\* verify_certificate returns without caller-supplied criteria, and the pass
\* that stored it wrote exactly the alerts of that verdict to the table.
C22_BulkEqualsSingleUntilFailure ==
    bulk.faults = {} =>
        /\ \A cert_id \in DOMAIN bulk.results \cap certificates :
               bulk.results[cert_id] \in SingleVerdicts(cert_id)
        /\ (bulk.pc = "loop" /\ bulk.i > 1 /\ bulk.ids[bulk.i - 1] \in certificates) =>
               /\ last.cert_id = bulk.ids[bulk.i - 1]
               /\ bulk.results[last.cert_id].alerts = last.alerts
               /\ Len(alerts) >= Len(last.alerts)
               /\ \A k \in 1..Len(last.alerts) :
                      SameAlert(alerts[Len(alerts) - Len(last.alerts) + k],
                                last.alerts[k])

\* C22: a bulk request without failure has stored, for a certificate with
\* extracted fields, a verdict with a matched record and alerts.
C22_BulkVerdictWithAlerts ==
    /\ bulk.pc = "done" /\ bulk.faults = {}
    /\ \E cert_id \in DOMAIN bulk.results \cap certificates :
          /\ ~NothingExtracted(cert_data_of(cert_id))
          /\ bulk.results[cert_id].matched_record # NoRecord
          /\ bulk.results[cert_id].alerts # <<>>

(***************************************************************************)
(* Properties of requests in several processes (RaceSpec)                  *)
(***************************************************************************)
\* C21: no certificate has two unresolved alerts with the same reason and
\* level, whatever the interleaving of the reads, adds and commits of the
\* verify calls that created them.
C21_NoDuplicateAlerts ==
    \A j, k \in 1..Len(alerts) :
        (j < k /\ ~alerts[j].resolved /\ ~alerts[k].resolved)
            => ~SameAlert(alerts[j], alerts[k])

\* C21, as far as the code goes: the alerts of one verify call differ from
\* each other in their reason.
C21_OneCallNoDuplicates ==
    \A j, k \in 1..Len(alerts) :
        (j < k /\ alerts[j].run = alerts[k].run)
            => alerts[j].reason # alerts[k].reason

\* C21: two processes have verified the same certificate, the second read
\* while the first had added its alerts and not committed, and both commits
\* went through.
C21_TwoCallsRaced ==
    /\ procs # NoProcs
    /\ procs[1].pc = "done" /\ procs[2].pc = "done"
    /\ procs[1].op = "verify" /\ procs[2].op = "verify"
    /\ procs[1].cert_id = procs[2].cert_id
    /\ procs[1].status = 200 /\ procs[2].status = 200
    /\ Len(alerts) >= 4
    /\ alerts[1].run = 2 /\ alerts[Len(alerts)].run = 1

(***************************************************************************)
(* Properties of bulk upload (UploadSpec)                                  *)
(***************************************************************************)
Returned(p) == procs[p].op = "upload" /\ procs[p].pc = "done"

\* The upload of p was the only request: no other process has started one.
Alone(p) == \A q \in Procs \ {p} : procs[q].pc = "idle"

\* The rows of the file the loop of upload_csv_records or
\* upload_json_records passed over.
Malformed(p) == procs[p].received - Len(procs[p].batch)

\* C23: when a file upload has returned, every row of the file is counted,
\* the malformed ones in error_count, and errors lists an entry for each
\* malformed row.
C23_MalformedRowsCounted ==
    \A p \in Procs :
        (Returned(p) /\ procs[p].source = "file" /\ procs[p].cause # "unreadable") =>
            /\ procs[p].success_count + procs[p].error_count = procs[p].received
            /\ procs[p].error_count >= Malformed(p)
            /\ Len(procs[p].errors) >= Malformed(p)

\* C23, as far as the code goes: the rows after and before a malformed row
\* are processed, each counted once as a success or as an error; the
\* malformed rows are counted nowhere.
C23_WellFormedRowsProcessed ==
    \A p \in Procs :
        (Returned(p) /\ procs[p].source = "file" /\ procs[p].cause # "unreadable") =>
            /\ procs[p].success_count + procs[p].error_count
                   = procs[p].received - Malformed(p)
            /\ procs[p].i = Len(procs[p].batch) + 1

\* C23: a file of three rows, one of them malformed, has been uploaded and
\* two records were stored; the response counts no error.
C23_MalformedRowAmongGoodRows ==
    \E p \in Procs :
        /\ Returned(p) /\ procs[p].source = "file"
        /\ procs[p].received = 3 /\ Malformed(p) = 1
        /\ procs[p].success_count = 2 /\ procs[p].error_count = 0
        /\ procs[p].errors = <<>>

\* The rows of table verified_records that the upload of p inserted.
OwnRows(p) == {r \in records : r.id \in {100 * p + k : k \in 1..MaxBatch}}

\* Record k of the batch of p bears a number that was stored before the
\* upload, or that an earlier record of the batch bears.
IsDuplicate(p, k) ==
    \/ procs[p].batch[k].cert_number \in Numbers(records \ OwnRows(p))
    \/ \E j \in 1..(k - 1) :
          procs[p].batch[j].cert_number = procs[p].batch[k].cert_number

\* The response and the table after the upload of p treat every record of
\* the batch as the claim says: a duplicate is listed as one, any other
\* record is stored and counted.
DuplicatesRejectedOnly(p) ==
    /\ \A k \in 1..Len(procs[p].batch) :
           IF IsDuplicate(p, k)
           THEN \E e \in 1..Len(procs[p].errors) :
                   procs[p].errors[e]
                       = <<"already exists", procs[p].batch[k].cert_number>>
           ELSE \E r \in OwnRows(p) :
                   r.id = 100 * p + k
                   /\ r.cert_number = procs[p].batch[k].cert_number
    /\ procs[p].success_count
           = Cardinality({k \in 1..Len(procs[p].batch) : ~IsDuplicate(p, k)})

NoRepeats(batch) ==
    \A j, k \in 1..Len(batch) : batch[j].cert_number = batch[k].cert_number => j = k

\* C24: after a bulk upload on its own in which nothing outside the program
\* failed, every record whose number was stored already or came earlier in
\* the batch is listed as a duplicate, and every other record is stored and
\* counted in success_count.
C24_DuplicateRejectedSiblingsKept ==
    \A p \in Procs :
        (Returned(p) /\ Alone(p) /\ procs[p].cause \notin {"unreadable", "connection"})
            => DuplicatesRejectedOnly(p)

\* C24, as far as the code goes: the same, for a batch that repeats no
\* number, or when the session flushes before each query.
C24_StoredDuplicateRejected ==
    \A p \in Procs :
        (Returned(p) /\ Alone(p) /\ procs[p].cause \notin {"unreadable", "connection"}
         /\ (autoflush \/ NoRepeats(procs[p].batch)))
            => DuplicatesRejectedOnly(p)

\* C24: a batch of three records, the second a duplicate of a stored record,
\* the first and third stored.
C24_StoredDuplicateBetweenFresh ==
    \E p \in Procs :
        /\ Returned(p) /\ Alone(p) /\ procs[p].cause = "none"
        /\ Len(procs[p].batch) = 3
        /\ IsDuplicate(p, 2) /\ ~IsDuplicate(p, 1) /\ ~IsDuplicate(p, 3)
        /\ procs[p].success_count = 2 /\ procs[p].error_count = 1
        /\ Cardinality(OwnRows(p)) = 2

\* C25: no two rows of verified_records bear the same certificate number,
\* whatever uploads have run, one after the other or interleaved, and
\* whatever numbers their batches repeat.
C25_CertNumbersUnique ==
    \A r1, r2 \in records : r1.cert_number = r2.cert_number => r1 = r2

\* C25: two uploads ran interleaved, both added the same new number, one
\* commit stored it and the other failed on the unique constraint.
C25_SameNumberUploadedTwice ==
    /\ procs # NoProcs
    /\ Returned(1) /\ Returned(2)
    /\ procs[1].cause = "none" /\ procs[2].cause = "duplicate"
    /\ procs[1].success_count >= 1
    /\ procs[2].error_count >= 1 /\ procs[2].errors = <<<<"Database commit error">>>>
    /\ \E r \in OwnRows(1) :
          \E k \in 1..Len(procs[2].batch) :
              procs[2].batch[k].cert_number = r.cert_number

\* C30: when bulk_upload_verified_records has returned, success_count +
\* error_count is the number of records it was called with and
\* success_count is the number of rows of the batch in the table; when the
\* commit failed, none of its rows is in the table, success_count is 0 and
\* error_count is the number of records.
C30_CountsAddUp ==
    \A p \in Procs :
        (Returned(p) /\ procs[p].cause # "unreadable") =>
            /\ procs[p].success_count + procs[p].error_count = Len(procs[p].batch)
            /\ procs[p].success_count = Cardinality(OwnRows(p))
            /\ procs[p].cause # "none" =>
                   /\ OwnRows(p) = {}
                   /\ procs[p].success_count = 0
                   /\ procs[p].error_count = Len(procs[p].batch)

\* C30: the commit of a batch of three records failed after one record had
\* been rejected as a duplicate and two had been added.
C30_CommitFailedAfterAdds ==
    \E p \in Procs :
        /\ Returned(p) /\ procs[p].cause \in {"connection", "duplicate"}
        /\ Len(procs[p].batch) = 3
        /\ Len(procs[p].errors) = 2
        /\ procs[p].errors[1][1] = "already exists"
        /\ procs[p].error_count = 3

(***************************************************************************)
(* Properties of extract-and-save (OcrSpec)                                *)
(***************************************************************************)
\* The calls that saved an extraction for certificate c.
Saved(c) ==
    {p \in Procs : procs[p].op = "extract" /\ procs[p].pc = "done"
                   /\ procs[p].status = 200 /\ procs[p].cert_id = c}
Latest(c) == CHOOSE p \in Saved(c) : \A q \in Saved(c) : procs[q].at <= procs[p].at
RowsFor(c) == {k \in 1..Len(dataRows) : dataRows[k].cert_id = c}

\* Certificate c has one row, with the fields of the extraction saved last.
OneRowLatest(c) ==
    /\ Cardinality(RowsFor(c)) = 1
    /\ \A k \in RowsFor(c) :
           dataRows[k] = DataRow(c, procs[Latest(c)].data, dataRows[k].extracted_at)

\* No two calls that saved for c overlapped: one had committed when the
\* other queried.
Serial(c) ==
    \A p, q \in Saved(c) :
        p # q => \/ procs[p].at <= procs[q].queried_at
                 \/ procs[q].at <= procs[p].queried_at

\* C26: a certificate for which extract-and-save calls have saved, one after
\* the other or interleaved, has exactly one certificate_data row, and the
\* row holds the fields of the extraction saved last.
C26_OneRowLatestExtraction ==
    \A c \in CertIds : Saved(c) # {} => OneRowLatest(c)

\* C26, as far as the code goes: the same for calls that ran one after the
\* other.
C26_SerialCallsOneRow ==
    \A c \in CertIds : (Saved(c) # {} /\ Serial(c)) => OneRowLatest(c)

\* C26: two calls for a certificate without a row, one after the other with
\* different fields; the second found the row of the first and updated it.
C26_SecondCallUpdatedInPlace ==
    /\ procs # NoProcs
    /\ Saved(1) = {1, 2} /\ Serial(1)
    /\ procs[1].found = 0 /\ procs[2].found = 1
    /\ procs[1].data # procs[2].data
    /\ Len(dataRows) = 1

(***************************************************************************)
(* Properties of alert management (AlertSpec)                              *)
(***************************************************************************)
\* The latest answer came from an alert endpoint.
AlertAnswered == "op" \in DOMAIN response

\* C28: in every state reached by creating alerts and by the resolve,
\* unresolve, bulk-resolve and dashboard-resolve endpoints, an alert is
\* resolved if and only if its resolution timestamp is set.
C28_ResolvedIffTimestamp ==
    \A k \in 1..Len(alerts) : alerts[k].resolved <=> alerts[k].resolved_at # 0

\* C28: an alert was resolved and unresolved again and has neither the flag
\* nor a timestamp, while another alert is resolved with its timestamp.
C28_UnresolvedBesideResolved ==
    /\ AlertAnswered
    /\ response.op = "unresolve" /\ response.status = 200
    /\ ~alerts[response.alert_id].resolved
    /\ alerts[response.alert_id].resolved_at = 0
    /\ \E k \in 1..Len(alerts) : alerts[k].resolved /\ alerts[k].resolved_at # 0

\* A single-alert call of api/v1/alerts.py that would not change the flag of
\* an alert is answered with status 400.
NoChangeRejected ==
    (/\ "op" \in DOMAIN response'
     /\ response'.op \in {"resolve", "unresolve"}
     /\ response'.alert_id \in 1..Len(alerts)
     /\ alerts[response'.alert_id].resolved = (response'.op = "resolve"))
    => response'.status = 400 /\ alerts' = alerts

\* An alert that is resolved before and after a step is left as it was.
ResolvedKept ==
    \A k \in 1..Len(alerts) :
        (alerts[k].resolved /\ alerts'[k].resolved) => alerts'[k] = alerts[k]

\* C29: resolving a resolved alert never changes it, through the alerts
\* resolve endpoint, the dashboard resolve endpoint and bulk-resolve: its
\* timestamp stays as the first resolve set it until an unresolve; and the
\* single-alert resolve and unresolve endpoints reject a call that would not
\* change the flag.
C29_ResolveKeepsResolvedAlert == [][ResolvedKept /\ NoChangeRejected]_vars

\* C29, as far as the code goes: the same for every step but those of the
\* dashboard resolve endpoint.
C29_AlertsEndpointsKeepResolvedAlert ==
    [][/\ ("op" \in DOMAIN response' /\ response'.op = "dashboard_resolve")
            \/ ResolvedKept
       /\ NoChangeRejected]_vars

\* C29: the alerts resolve endpoint has rejected a call for an alert that
\* was resolved at an earlier reading of the clock.
C29_ResolveRejectedLater ==
    /\ AlertAnswered
    /\ response.op = "resolve" /\ response.status = 400
    /\ alerts[response.alert_id].resolved
    /\ alerts[response.alert_id].resolved_at < now
====
